---- MODULE Spec2Model ----
(***************************************************************************)
(* A model of src/src/query-builder/QueryBuilder.ts: the parameter ledger  *)
(* (logical and native parameters, parent propagation, clone), the         *)
(* condition compiler (computeWhereParameter, createWhereIdsExpression,    *)
(* computeFindOperatorExpression) and the WHERE renderer.                  *)
(*                                                                         *)
(* Objects live in a heap: query builders point to expression maps, and    *)
(* expression maps point to native-parameter stores, so that sharing by    *)
(* reference (a Brackets builder borrows its parent's native store) and    *)
(* copying (clone) are different things in the model as they are in the    *)
(* code.  SQL text and parameter names are strings, built by               *)
(* concatenation exactly as the template literals of the source build      *)
(* them.  Every JavaScript value that is stored as a parameter is encoded  *)
(* as a string: a scalar is its own text, an array is "[a,b]", a callable  *)
(* is FunctionValue.                                                       *)
(***************************************************************************)
EXTENDS Integers, Sequences, FiniteSets, TLC

VARIABLES
    queryBuilders,   \* heap of QueryBuilder objects: <<[expressionMap |-> id,
                     \*   queryRunner |-> id of a query runner, or 0]>>
    expressionMaps,  \* heap of QueryExpressionMap objects
    nativeStores,    \* heap of nativeParameters objects (insertion-ordered)
    driver,          \* connection.driver: the dialect in use
    last,            \* the last call: operation, receiver, arguments, outcome
    explicitDiscriminator, \* history: builders whose caller supplied DiscriminatorKey
    cloneOf,         \* history: cloneOf[c] = the builder c was cloned from, or 0
    ops,             \* number of calls made so far
    queryRunners,    \* heap of QueryRunner objects: <<[supplied, released]>>
    executions       \* the activations of execute(): <<[qb, queryRunner, pc, ...]>>

vars == <<queryBuilders, expressionMaps, nativeStores, driver, last, explicitDiscriminator,
          cloneOf, ops, queryRunners, executions>>

-----------------------------------------------------------------------------
(* Bounds of the model. *)

MaxBuilders == 3
MaxOps == 3

-----------------------------------------------------------------------------
(* Strings. *)

RECURSIVE Join(_, _)
Join(parts, sep) ==
    IF Len(parts) = 0 THEN ""
    ELSE IF Len(parts) = 1 THEN parts[1]
    ELSE parts[1] \o sep \o Join(Tail(parts), sep)

startsWith(x, prefix) ==
    Len(x) >= Len(prefix) /\ SubSeq(x, 1, Len(prefix)) = prefix

RECURSIVE Flatten(_)
Flatten(ss) == IF Len(ss) = 0 THEN <<>> ELSE Head(ss) \o Flatten(Tail(ss))

(* With(v, F) is F(v): it names a value that is used more than once. *)
With(v, F(_)) == F(v)

(* JavaScript values as strings. *)
FunctionValue == "function(){}"
IsFunction(v) == v = FunctionValue
ArrayValue(values) == "[" \o Join(values, ",") \o "]"

-----------------------------------------------------------------------------
(* The Metadata Port: the entity metadata the builder reads.  The fields   *)
(* are those QueryBuilder.ts dereferences.                                 *)

Column(propertyName, databaseName, isPrimary, transformer) ==
    [propertyName |-> propertyName, propertyPath |-> propertyName,
     databaseName |-> databaseName, isPrimary |-> isPrimary,
     transformer |-> transformer]

Entity(tablePath, columns, discriminatorColumn, discriminatorValue, parent, children) ==
    [tablePath |-> tablePath, columns |-> columns, relations |-> <<>>,
     discriminatorColumn |-> discriminatorColumn,
     discriminatorValue |-> discriminatorValue,
     parentEntityMetadata |-> parent,
     childEntityMetadatas |-> children,
     embeddeds |-> <<>>,
     deleteDateColumn |-> <<>>]

(* An entity with a delete-date column (a sequence of zero or one column). *)
SoftDeleted(entity, column) == [entity EXCEPT !.deleteDateColumn = <<column>>]

EntityMetadatas ==
    [ Post   |-> Entity("post",
                   << Column("id", "id", TRUE, FALSE),
                      Column("title", "post_title", FALSE, FALSE) >>,
                   "", "", "", <<>>),
      Member |-> Entity("member",
                   << Column("tenantId", "tenant_id", TRUE, FALSE),
                      Column("localId", "local_id", TRUE, FALSE),
                      Column("role", "role", FALSE, FALSE) >>,
                   "", "", "", <<>>),
      Ledger |-> Entity("ledger",
                   << Column("id", "id", TRUE, TRUE) >>,
                   "", "", "", <<>>),
      Animal |-> Entity("animal",
                   << Column("id", "id", TRUE, FALSE),
                      Column("type", "type", FALSE, FALSE) >>,
                   "type", "animal", "", <<"Cat", "Dog", "Kitten">>),
      Cat    |-> Entity("animal",
                   << Column("id", "id", TRUE, FALSE),
                      Column("type", "type", FALSE, FALSE) >>,
                   "type", "cat", "Animal", <<"Kitten">>),
      Dog    |-> Entity("animal",
                   << Column("id", "id", TRUE, FALSE),
                      Column("type", "type", FALSE, FALSE) >>,
                   "type", "dog", "Animal", <<>>),
      Kitten |-> Entity("animal",
                   << Column("id", "id", TRUE, FALSE),
                      Column("type", "type", FALSE, FALSE) >>,
                   "type", "kitten", "Cat", <<>>),
      Article |-> SoftDeleted(
                   Entity("article",
                     << Column("id", "id", TRUE, FALSE),
                        Column("kind", "kind", FALSE, FALSE),
                        Column("deletedAt", "deleted_at", FALSE, FALSE) >>,
                     "kind", "article", "", <<"Draft">>),
                   Column("deletedAt", "deleted_at", FALSE, FALSE)),
      Draft  |-> SoftDeleted(
                   Entity("article",
                     << Column("id", "id", TRUE, FALSE),
                        Column("kind", "kind", FALSE, FALSE),
                        Column("deletedAt", "deleted_at", FALSE, FALSE) >>,
                     "kind", "draft", "Article", <<>>),
                   Column("deletedAt", "deleted_at", FALSE, FALSE)),
      Tag    |-> Entity("tag",
                   << Column("id", "id", TRUE, FALSE),
                      Column("name", "title", FALSE, FALSE),
                      Column("title", "label", FALSE, FALSE) >>,
                   "", "", "", <<>>) ]

EntityNames == DOMAIN EntityMetadatas

primaryColumns(metadata) ==
    SelectSeq(metadata.columns, LAMBDA c : c.isPrimary)

hasMultiplePrimaryKeys(metadata) == Len(primaryColumns(metadata)) > 1

findColumnsWithPropertyPath(metadata, propertyPath) ==
    SelectSeq(metadata.columns, LAMBDA c : c.propertyPath = propertyPath)

(* The Alias objects a builder can have as main alias: name, hasMetadata,  *)
(* metadata (an entity name) and tablePath.                                *)
Aliases ==
    [ post   |-> [name |-> "post",   hasMetadata |-> TRUE,  metadata |-> "Post",   tablePath |-> "post"],
      member |-> [name |-> "member", hasMetadata |-> TRUE,  metadata |-> "Member", tablePath |-> "member"],
      ledger |-> [name |-> "ledger", hasMetadata |-> TRUE,  metadata |-> "Ledger", tablePath |-> "ledger"],
      animal |-> [name |-> "animal", hasMetadata |-> TRUE,  metadata |-> "Animal", tablePath |-> "animal"],
      cat    |-> [name |-> "cat",    hasMetadata |-> TRUE,  metadata |-> "Cat",    tablePath |-> "animal"],
      dog    |-> [name |-> "dog",    hasMetadata |-> TRUE,  metadata |-> "Dog",    tablePath |-> "animal"],
      article |-> [name |-> "article", hasMetadata |-> TRUE, metadata |-> "Article", tablePath |-> "article"],
      draft  |-> [name |-> "draft",  hasMetadata |-> TRUE,  metadata |-> "Draft",  tablePath |-> "article"],
      tag    |-> [name |-> "tag",    hasMetadata |-> TRUE,  metadata |-> "Tag",    tablePath |-> "tag"],
      raw    |-> [name |-> "raw",    hasMetadata |-> FALSE, metadata |-> "",       tablePath |-> "raw_table"] ]

NoAlias == ""

-----------------------------------------------------------------------------
(* The heap.  A heap value H is [qb, em, ns, driver]: the three object     *)
(* tables and the connection's driver.                                     *)

Heap == [qb |-> queryBuilders, em |-> expressionMaps, ns |-> nativeStores,
         driver |-> driver]

MapIdOf(H, b) == H.qb[b].expressionMap
MapOf(H, b) == H.em[MapIdOf(H, b)]
StoreIdOf(H, b) == MapOf(H, b).nativeParameters
StoreOf(H, b) == H.ns[StoreIdOf(H, b)]

SetMapField(H, b, field, value) ==
    [H EXCEPT !.em[MapIdOf(H, b)] = [@ EXCEPT ![field] = value]]

HasNative(store, name) == \E i \in 1..Len(store) : store[i].name = name

NativeValue(store, name) ==
    (CHOOSE e \in {store[i] : i \in 1..Len(store)} : e.name = name).value

(* nativeParameters[name] = value: an existing key keeps its position. *)
NativeAssign(store, name, value) ==
    IF HasNative(store, name)
    THEN [i \in 1..Len(store) |->
             IF store[i].name = name THEN [name |-> name, value |-> value]
             ELSE store[i]]
    ELSE Append(store, [name |-> name, value |-> value])

SetNative(H, b, name, value) ==
    [H EXCEPT !.ns[StoreIdOf(H, b)] = NativeAssign(@, name, value)]

(* Outcomes of a call: the heap it leaves, whether it returned, what it    *)
(* returned and, when it threw, which error.                               *)
Return(H, ret) == [h |-> H, ok |-> TRUE, ret |-> ret, err |-> ""]
Throw(H, err) == [h |-> H, ok |-> FALSE, ret |-> "", err |-> err]

(* Bind(r, F): the rest F of a method after a call that may have thrown. *)
Bind(r, F(_)) == IF r.ok THEN F(r) ELSE r

FunctionParameterError == "Function parameter isn't supported in the parameters"
(* new EntityColumnNotFound(propertyPath) *)
EntityColumnNotFound(propertyPath) == "EntityColumnNotFound: " \o propertyPath
TypeError == "TypeError"

-----------------------------------------------------------------------------
(* expressionMap.returning: undefined, the text of a RETURNING clause or a *)
(* list of property paths.                                                 *)
NoReturning == [kind |-> "undefined", text |-> "", names |-> <<>>]
ReturningString(text) == [kind |-> "string", text |-> text, names |-> <<>>]
ReturningArray(names) == [kind |-> "array", text |-> "", names |-> names]

-----------------------------------------------------------------------------
(* Construction and cloning. *)

(* new QueryExpressionMap(connection): the defaults of a fresh map. *)
NewQueryExpressionMap(H) ==
    [H EXCEPT
       !.ns = Append(@, <<>>),
       !.em = Append(@, [parameters |-> <<>>,
                         nativeParameters |-> Len(H.ns) + 1,
                         aliases |-> <<>>,
                         mainAlias |-> NoAlias,
                         parentQueryBuilder |-> 0,
                         wheres |-> <<>>,
                         aliasNamePrefixingEnabled |-> TRUE,
                         disableEscaping |-> TRUE,
                         queryType |-> "select",
                         withDeleted |-> FALSE,
                         extraAppendedAndWhereCondition |-> "",
                         returning |-> ReturningString(""),
                         extraReturningColumns |-> <<>>])]

(* QueryExpressionMap.clone(): a new map with its own copies of the        *)
(* parameters, the native parameters, the aliases and the conditions.      *)
QueryExpressionMapClone(H, m) ==
    [H EXCEPT
       !.ns = Append(@, H.ns[H.em[m].nativeParameters]),
       !.em = Append(@, [H.em[m] EXCEPT !.nativeParameters = Len(H.ns) + 1])]

(* The new builder points to the last expression map of the heap. *)
NewBuilder(H, queryRunner) ==
    [H EXCEPT !.qb = Append(@, [expressionMap |-> Len(H.em),
                                queryRunner |-> queryRunner])]

(* The builder that shares the expression map of another builder instead   *)
(* of cloning it.                                                          *)
constructor_SharedMap(H, connectionOrQueryBuilder, queryRunner) ==
    IF connectionOrQueryBuilder # 0
    THEN [H EXCEPT !.qb = Append(@,
              [expressionMap |-> MapIdOf(H, connectionOrQueryBuilder),
               queryRunner |-> H.qb[connectionOrQueryBuilder].queryRunner])]
    ELSE NewBuilder(NewQueryExpressionMap(H), queryRunner)

(* constructor(connectionOrQueryBuilder, queryRunner): 0 stands for the    *)
(* Connection, any other first argument is the builder to copy, query      *)
(* runner included; 0 stands for no query runner.  The new builder is the  *)
(* last of the heap.                                                       *)
constructor(H, connectionOrQueryBuilder, queryRunner) ==
    IF connectionOrQueryBuilder # 0
    THEN NewBuilder(QueryExpressionMapClone(H, MapIdOf(H, connectionOrQueryBuilder)),
                    H.qb[connectionOrQueryBuilder].queryRunner)
    ELSE NewBuilder(NewQueryExpressionMap(H), queryRunner)

createQueryBuilder(H, b) == constructor(H, 0, H.qb[b].queryRunner)

clone(H, b) == constructor(H, b, 0)

(* expressionMap.setMainAlias(createFromAlias(entityTarget)) *)
setMainAlias(H, b, alias) ==
    SetMapField(SetMapField(H, b, "aliases", Append(MapOf(H, b).aliases, alias)),
                b, "mainAlias", alias)

(* SelectQueryBuilder.subQuery(): a new builder whose parent is b. *)
subQuery(H, b) ==
    With(createQueryBuilder(H, b),
         LAMBDA H1 : SetMapField(H1, Len(H1.qb), "parentQueryBuilder", b))

-----------------------------------------------------------------------------
(* The parameter ledger. *)

DiscriminatorKey == "discriminatorColumnValues"

setParameter(H, b, key, value) ==
    SetMapField(H, b, "parameters", (key :> value) @@ MapOf(H, b).parameters)

(* Object.keys(parameters).forEach(key => this.setParameter(key, ...)) *)
setEach(H, b, parameters) ==
    SetMapField(H, b, "parameters", parameters @@ MapOf(H, b).parameters)

(* setParameters without the propagation to the parent builder. *)
setParameters_NoParent(H, b, parameters) ==
    IF \E key \in DOMAIN parameters : IsFunction(parameters[key])
    THEN Throw(H, FunctionParameterError)
    ELSE Return(setEach(H, b, parameters), "")

(* setParameters that validates each key only when it comes to write it:   *)
(* the values that are not functions are written before the call fails.    *)
setParameters_WriteThenFail(H, b, parameters) ==
    IF \E key \in DOMAIN parameters : IsFunction(parameters[key])
    THEN Throw(setEach(H, b, [key \in {k \in DOMAIN parameters : ~IsFunction(parameters[k])} |-> parameters[key]]), FunctionParameterError)
    ELSE setParameters_NoParent(H, b, parameters)

RECURSIVE setParameters(_, _, _)
setParameters(H, b, parameters) ==
    IF \E key \in DOMAIN parameters : IsFunction(parameters[key])
    THEN Throw(H, FunctionParameterError)
    ELSE IF MapOf(H, b).parentQueryBuilder # 0
    THEN Bind(setParameters(H, MapOf(H, b).parentQueryBuilder, parameters),
              LAMBDA r : Return(setEach(r.h, b, parameters), ""))
    ELSE Return(setEach(H, b, parameters), "")

RECURSIVE AssignNatives(_, _, _)
AssignNatives(H, b, entries) ==
    IF Len(entries) = 0 THEN H
    ELSE AssignNatives(SetNative(H, b, entries[1].name, entries[1].value),
                       b, Tail(entries))

(* parameters: a sequence of [name, value], in Object.keys order. *)
RECURSIVE setNativeParameters(_, _, _)
setNativeParameters(H, b, parameters) ==
    IF MapOf(H, b).parentQueryBuilder # 0
    THEN AssignNatives(
             setNativeParameters(H, MapOf(H, b).parentQueryBuilder, parameters),
             b, parameters)
    ELSE AssignNatives(H, b, parameters)

hasDiscriminator(metadata) ==
    metadata.discriminatorColumn # "" /\ metadata.parentEntityMetadata # ""

discriminatorColumnValues(metadata) ==
    With(SelectSeq(metadata.childEntityMetadatas,
                   LAMBDA child : EntityMetadatas[child].discriminatorColumn # ""),
         LAMBDA children :
           Append([i \in 1..Len(children) |->
                      EntityMetadatas[children[i]].discriminatorValue],
                  metadata.discriminatorValue))

(* getParameters that leaves the entity's own discriminator value out. *)
getParameters_NoOwnValue(H, b) ==
    IF MapOf(H, b).mainAlias # NoAlias /\ Aliases[MapOf(H, b).mainAlias].hasMetadata
    THEN With(EntityMetadatas[Aliases[MapOf(H, b).mainAlias].metadata],
           LAMBDA metadata :
             IF hasDiscriminator(metadata)
             THEN (DiscriminatorKey :>
                     ArrayValue(SubSeq(discriminatorColumnValues(metadata), 1,
                                       Len(discriminatorColumnValues(metadata)) - 1)))
                      @@ MapOf(H, b).parameters
             ELSE MapOf(H, b).parameters)
    ELSE MapOf(H, b).parameters

getParameters(H, b) ==
    IF MapOf(H, b).mainAlias # NoAlias /\ Aliases[MapOf(H, b).mainAlias].hasMetadata
    THEN With(EntityMetadatas[Aliases[MapOf(H, b).mainAlias].metadata],
           LAMBDA metadata :
             IF hasDiscriminator(metadata)
             THEN (DiscriminatorKey :> ArrayValue(discriminatorColumnValues(metadata)))
                      @@ MapOf(H, b).parameters
             ELSE MapOf(H, b).parameters)
    ELSE MapOf(H, b).parameters

(* Escapes a name with the driver's escaping character, as the code does   *)
(* it: the name is returned unchanged when disableEscaping is false.       *)
driverEscape(name) == "\"" \o name \o "\""

escape(H, b, name) ==
    IF ~MapOf(H, b).disableEscaping THEN name ELSE driverEscape(name)

(* driver.createParameter(parameterName, index): the dialect is external;  *)
(* the placeholder of the model shows both arguments.                      *)
createParameter(parameterName, index) ==
    "{" \o parameterName \o "#" \o ToString(index) \o "}"

-----------------------------------------------------------------------------
(* Operator descriptors (FindOperator).  value is the payload as a         *)
(* sequence; an operator with multipleParameters binds one parameter per   *)
(* element, any other binds its single element.  Not(child) answers        *)
(* value, useParameter and multipleParameters with those of its child.     *)

FindOperator(type, value, useParameter, multipleParameters) ==
    [type |-> type, value |-> value, useParameter |-> useParameter,
     multipleParameters |-> multipleParameters, child |-> <<>>,
     objectLiteralParameters |-> <<>>, getSql |-> ""]

In(values) == FindOperator("in", values, TRUE, TRUE)
Between(from, to) == FindOperator("between", <<from, to>>, TRUE, TRUE)
ILike(value) == FindOperator("ilike", <<value>>, TRUE, FALSE)
IsNull == FindOperator("isNull", <<>>, FALSE, FALSE)
LessThan(value) == FindOperator("lessThan", <<value>>, TRUE, FALSE)
NotOperator(child) ==
    [FindOperator("not", child.value, child.useParameter, child.multipleParameters)
        EXCEPT !.child = <<child>>]
(* Not(value) of a plain value: no child, one parameter. *)
NotValue(value) == FindOperator("not", <<value>>, TRUE, FALSE)

(* The values of a structured record. *)
NullValue == [kind |-> "null", value |-> "", operator |-> <<>>]
PlainValue(v) == [kind |-> "value", value |-> v, operator |-> <<>>]
OperatorValue(op) == [kind |-> "operator", value |-> "", operator |-> <<op>>]

(* The condition inputs of computeWhereParameter. *)
StringWhere(text) ==
    [kind |-> "string", text |-> text, whereFactory |-> <<>>, wheres |-> <<>>]
Brackets(whereFactory) ==
    [kind |-> "brackets", text |-> "", whereFactory |-> whereFactory, wheres |-> <<>>]
ObjectWhere(wheres) ==
    [kind |-> "object", text |-> "", whereFactory |-> <<>>, wheres |-> wheres]

(* The calls a Brackets callback makes on the builder it is given. *)
CallSetParameter(key, value) ==
    [op |-> "setParameter", key |-> key, value |-> value,
     parameters |-> <<>>, where |-> StringWhere("")]
CallSetParameters(parameters) ==
    [op |-> "setParameters", key |-> "", value |-> "",
     parameters |-> parameters, where |-> StringWhere("")]
CallAndWhere(where) ==
    [op |-> "andWhere", key |-> "", value |-> "",
     parameters |-> <<>>, where |-> where]

-----------------------------------------------------------------------------
(* The Operator Translator. *)

Placeholder(parameters, i) ==
    IF i <= Len(parameters) THEN parameters[i] ELSE "undefined"

(* Lines 1223-1227 that render an empty list as IN (). *)
inExpression_EmptyList(aliasPath, parameters) ==
    aliasPath \o " IN (" \o Join(parameters, ", ") \o ")"

(* Lines 1223-1227: case "in". *)
inExpression(aliasPath, parameters) ==
    IF Len(parameters) = 0 THEN "0=1"
    ELSE aliasPath \o " IN (" \o Join(parameters, ", ") \o ")"

(* Line 1191 that drops the negation of the child. *)
notExpression_NoNegation(childExpression) == childExpression

(* Line 1191: the negation of the fragment of the child. *)
notExpression(childExpression) == "NOT(" \o childExpression \o ")"

RECURSIVE computeFindOperatorExpression(_, _, _, _)
computeFindOperatorExpression(dialect, operator, aliasPath, parameters) ==
    CASE operator.type = "not" ->
           IF Len(operator.child) > 0
           THEN Bind(computeFindOperatorExpression(
                         dialect, operator.child[1], aliasPath, parameters),
                     LAMBDA inner : Return(<<>>, notExpression(inner.ret)))
           ELSE Return(<<>>, aliasPath \o " != " \o Placeholder(parameters, 1))
      [] operator.type = "lessThan" ->
           Return(<<>>, aliasPath \o " < " \o Placeholder(parameters, 1))
      [] operator.type = "lessThanOrEqual" ->
           Return(<<>>, aliasPath \o " <= " \o Placeholder(parameters, 1))
      [] operator.type = "moreThan" ->
           Return(<<>>, aliasPath \o " > " \o Placeholder(parameters, 1))
      [] operator.type = "moreThanOrEqual" ->
           Return(<<>>, aliasPath \o " >= " \o Placeholder(parameters, 1))
      [] operator.type = "equal" ->
           Return(<<>>, aliasPath \o " = " \o Placeholder(parameters, 1))
      [] operator.type = "ilike" ->
           IF dialect \in {"postgres", "cockroachdb"}
           THEN Return(<<>>, aliasPath \o " ILIKE " \o Placeholder(parameters, 1))
           ELSE Return(<<>>, "UPPER(" \o aliasPath \o ") LIKE UPPER("
                                \o Placeholder(parameters, 1) \o ")")
      [] operator.type = "like" ->
           Return(<<>>, aliasPath \o " LIKE " \o Placeholder(parameters, 1))
      [] operator.type = "between" ->
           Return(<<>>, aliasPath \o " BETWEEN " \o Placeholder(parameters, 1)
                           \o " AND " \o Placeholder(parameters, 2))
      [] operator.type = "in" ->
           Return(<<>>, inExpression(aliasPath, parameters))
      [] operator.type = "any" ->
           Return(<<>>, aliasPath \o " = ANY(" \o Placeholder(parameters, 1) \o ")")
      [] operator.type = "isNull" -> Return(<<>>, aliasPath \o " IS NULL")
      [] operator.type = "raw" ->
           IF operator.getSql # "" THEN Return(<<>>, aliasPath \o operator.getSql)
           ELSE Return(<<>>, aliasPath \o " = " \o operator.value[1])
      [] OTHER -> Throw(<<>>, TypeError)

-----------------------------------------------------------------------------
(* The Property-Path Substitution Engine.  The regular expression          *)
(*   ([ =(]|^.{0}) prefix (key1|key2|...) (?=[ =),]|.{0}$)  with flags gm   *)
(* is matched character by character.  With flag m, ^ and $ match at the   *)
(* start and the end of every line of the text.                            *)

LeftBoundary == {" ", "=", "("}
RightBoundary == {" ", "=", ")", ","}
LineTerminators == {"\n", "\r"}

CharAt(text, i) == SubSeq(text, i, i)

(* The match of prefix+key at position i without the lookahead. *)
KeyMatchesAt_NoLookahead(text, i, word) ==
    /\ i + Len(word) - 1 <= Len(text)
    /\ SubSeq(text, i, i + Len(word) - 1) = word

(* Does prefix+key stand at position i, followed by a right boundary? *)
KeyMatchesAt(text, i, word) ==
    /\ i + Len(word) - 1 <= Len(text)
    /\ SubSeq(text, i, i + Len(word) - 1) = word
    /\ \/ i + Len(word) - 1 = Len(text)
       \/ CharAt(text, i + Len(word)) \in RightBoundary \cup LineTerminators

(* The first alternative of the key group that matches at i, or 0. *)
FirstKeyAt(text, i, prefix, replacements) ==
    With({ k \in 1..Len(replacements) :
             KeyMatchesAt(text, i, prefix \o replacements[k].name) },
         LAMBDA hits :
           IF hits = {} THEN 0 ELSE CHOOSE k \in hits : \A j \in hits : k <= j)

(* One step of the global replace at position i: afterPre is the key that  *)
(* matches behind a left boundary character at i, atStart the key that     *)
(* matches at i when i is the start of a line.                             *)
RECURSIVE regexReplace(_, _, _, _, _, _, _)
regexStep(H, b, text, i, prefix, replacementPrefix, replacements, afterPre, atStart) ==
    IF afterPre # 0
    THEN CharAt(text, i) \o replacementPrefix
           \o escape(H, b, replacements[afterPre].value)
           \o regexReplace(H, b, text,
                 i + 1 + Len(prefix \o replacements[afterPre].name),
                 prefix, replacementPrefix, replacements)
    ELSE IF atStart # 0
    THEN replacementPrefix \o escape(H, b, replacements[atStart].value)
           \o regexReplace(H, b, text,
                 i + Len(prefix \o replacements[atStart].name),
                 prefix, replacementPrefix, replacements)
    ELSE CharAt(text, i)
           \o regexReplace(H, b, text, i + 1, prefix, replacementPrefix, replacements)

regexReplace(H, b, text, i, prefix, replacementPrefix, replacements) ==
    IF i > Len(text) THEN ""
    ELSE regexStep(H, b, text, i, prefix, replacementPrefix, replacements,
             IF CharAt(text, i) \in LeftBoundary
             THEN FirstKeyAt(text, i + 1, prefix, replacements) ELSE 0,
             IF i = 1 \/ CharAt(text, i - 1) \in LineTerminators
             THEN FirstKeyAt(text, i, prefix, replacements) ELSE 0)

RECURSIVE AssignAll(_, _)
AssignAll(object, entries) ==
    IF Len(entries) = 0 THEN object
    ELSE AssignAll(NativeAssign(object, entries[1].name, entries[1].value),
                   Tail(entries))

ReplacementEntry(k, v) == [name |-> k, value |-> v]

joinColumnsOf(relation) == relation.joinColumns \o relation.inverseJoinColumns

(* The replacements object of one alias, in Object.keys order. *)
replacementsOf(metadata) ==
    AssignAll(<<>>,
        Flatten([i \in 1..Len(metadata.relations) |->
            IF Len(metadata.relations[i].joinColumns) > 0
            THEN <<ReplacementEntry(metadata.relations[i].propertyPath,
                       metadata.relations[i].joinColumns[1].databaseName)>>
            ELSE <<>>])
        \o Flatten([i \in 1..Len(metadata.relations) |->
            [j \in 1..Len(joinColumnsOf(metadata.relations[i])) |->
                ReplacementEntry(
                    metadata.relations[i].propertyPath \o "."
                       \o joinColumnsOf(metadata.relations[i])[j].referencedPropertyPath,
                    joinColumnsOf(metadata.relations[i])[j].databaseName)]])
        \o [i \in 1..Len(metadata.columns) |->
            ReplacementEntry(metadata.columns[i].databaseName,
                             metadata.columns[i].databaseName)]
        \o [i \in 1..Len(metadata.columns) |->
            ReplacementEntry(metadata.columns[i].propertyName,
                             metadata.columns[i].databaseName)]
        \o [i \in 1..Len(metadata.columns) |->
            ReplacementEntry(metadata.columns[i].propertyPath,
                             metadata.columns[i].databaseName)])

(* The body of the loop over expressionMap.aliases, for one alias. *)
replaceForAlias(H, b, statement, alias, replacements) ==
    IF Len(replacements) > 0
    THEN regexReplace(H, b, statement, 1,
             IF MapOf(H, b).aliasNamePrefixingEnabled THEN alias.name \o "." ELSE "",
             IF MapOf(H, b).aliasNamePrefixingEnabled
             THEN escape(H, b, alias.name) \o "." ELSE "",
             replacements)
    ELSE statement

RECURSIVE replaceForAliases(_, _, _, _)
replaceForAliases(H, b, statement, aliases) ==
    IF Len(aliases) = 0 THEN statement
    ELSE IF ~Aliases[aliases[1]].hasMetadata
    THEN replaceForAliases(H, b, statement, Tail(aliases))
    ELSE replaceForAliases(H, b,
             replaceForAlias(H, b, statement, Aliases[aliases[1]],
                 replacementsOf(EntityMetadatas[Aliases[aliases[1]].metadata])),
             Tail(aliases))

replacePropertyNames(H, b, statement) ==
    replaceForAliases(H, b, statement, MapOf(H, b).aliases)

whereExpressionOf(H, b, where, index) ==
    CASE where.type = "and" ->
           (IF index > 0 THEN "AND " ELSE "")
              \o replacePropertyNames(H, b, where.condition)
      [] where.type = "or" ->
           (IF index > 0 THEN "OR " ELSE "")
              \o replacePropertyNames(H, b, where.condition)
      [] OTHER -> replacePropertyNames(H, b, where.condition)

createWhereExpressionString(H, b) ==
    Join([i \in 1..Len(MapOf(H, b).wheres) |->
             whereExpressionOf(H, b, MapOf(H, b).wheres[i], i - 1)], " ")

-----------------------------------------------------------------------------
(* The main alias and the WHERE clause. *)

MainAliasNotSetError == "Main alias is not set"
NoInsertTargetError ==
    "Entity where values should be inserted is not specified. Call \"qb.into(entity)\" method to specify it."

(* get alias(): the name of the main alias. *)
getAlias(H, b) ==
    IF MapOf(H, b).mainAlias = NoAlias THEN Throw(H, MainAliasNotSetError)
    ELSE Return(H, Aliases[MapOf(H, b).mainAlias].name)

getMainTableName(H, b) ==
    IF MapOf(H, b).mainAlias = NoAlias THEN Throw(H, NoInsertTargetError)
    ELSE IF Aliases[MapOf(H, b).mainAlias].hasMetadata
    THEN Return(H, EntityMetadatas[Aliases[MapOf(H, b).mainAlias].metadata].tablePath)
    ELSE Return(H, Aliases[MapOf(H, b).mainAlias].tablePath)

WhiteSpace == {" ", "\t", "\n", "\r"}

(* String.prototype.trim() *)
RECURSIVE trim(_)
trim(text) ==
    IF Len(text) = 0 THEN text
    ELSE IF CharAt(text, 1) \in WhiteSpace THEN trim(Tail(text))
    ELSE IF CharAt(text, Len(text)) \in WhiteSpace
    THEN trim(SubSeq(text, 1, Len(text) - 1))
    ELSE text

(* Lines 741-743: the conditions of the builder, when they are not blank. *)
whereConditions(H, b) ==
    IF trim(createWhereExpressionString(H, b)) # ""
    THEN <<createWhereExpressionString(H, b)>> ELSE <<>>

(* The main alias as a prefix of a column, when prefixing is enabled. *)
mainAliasPrefix(H, b) ==
    IF MapOf(H, b).aliasNamePrefixingEnabled
    THEN Aliases[MapOf(H, b).mainAlias].name \o "." ELSE ""

(* Lines 747-763 that do not look at withDeleted. *)
deleteDateCondition_IgnoresWithDeleted(H, b, metadata) ==
    IF /\ MapOf(H, b).queryType = "select"
       /\ Len(metadata.deleteDateColumn) > 0
    THEN <<replacePropertyNames(H, b,
               mainAliasPrefix(H, b) \o metadata.deleteDateColumn[1].propertyName)
             \o " IS NULL">>
    ELSE <<>>

(* Lines 747-763: the condition of "non-deleted" in a select query. *)
deleteDateCondition(H, b, metadata) ==
    IF /\ MapOf(H, b).queryType = "select"
       /\ ~MapOf(H, b).withDeleted
       /\ Len(metadata.deleteDateColumn) > 0
    THEN <<replacePropertyNames(H, b,
               mainAliasPrefix(H, b) \o metadata.deleteDateColumn[1].propertyName)
             \o " IS NULL">>
    ELSE <<>>

(* Lines 765-777: the discriminator condition of a child entity. *)
discriminatorCondition(H, b, metadata) ==
    IF metadata.discriminatorColumn # "" /\ metadata.parentEntityMetadata # ""
    THEN <<replacePropertyNames(H, b,
               mainAliasPrefix(H, b) \o metadata.discriminatorColumn)
             \o " IN (:...discriminatorColumnValues)">>
    ELSE <<>>

(* Lines 780-785: the condition appended by the builder itself. *)
extraCondition(H, b) ==
    IF MapOf(H, b).extraAppendedAndWhereCondition # ""
    THEN <<replacePropertyNames(H, b, MapOf(H, b).extraAppendedAndWhereCondition)>>
    ELSE <<>>

(* Lines 787-793 that parenthesize nothing. *)
joinConditions_NoParentheses(conditionsArray) ==
    IF Len(conditionsArray) = 0 THEN ""
    ELSE " WHERE " \o Join(conditionsArray, " AND ")

(* Lines 787-793. *)
joinConditions(conditionsArray) ==
    IF Len(conditionsArray) = 0 THEN ""
    ELSE IF Len(conditionsArray) = 1 THEN " WHERE " \o conditionsArray[1]
    ELSE " WHERE ( " \o Join(conditionsArray, " ) AND ( ") \o " )"

(* The conditions of the entity of the main alias (lines 745-778). *)
metadataConditions(H, b) ==
    IF Aliases[MapOf(H, b).mainAlias].hasMetadata
    THEN deleteDateCondition(H, b,
             EntityMetadatas[Aliases[MapOf(H, b).mainAlias].metadata])
         \o discriminatorCondition(H, b,
             EntityMetadatas[Aliases[MapOf(H, b).mainAlias].metadata])
    ELSE <<>>

(* createWhereExpression(): mainAlias!.hasMetadata is read without a check  *)
(* and fails with a TypeError when there is no main alias.                 *)
createWhereExpression(H, b) ==
    IF MapOf(H, b).mainAlias = NoAlias THEN Throw(H, TypeError)
    ELSE Return(H, joinConditions(
             whereConditions(H, b) \o metadataConditions(H, b)
                \o extraCondition(H, b)))

-----------------------------------------------------------------------------
(* The Condition Compiler. *)

(* A value of a record as it is stored when no operator is interpreted. *)
StoredValue(v) ==
    IF v.kind = "operator" THEN "[object FindOperator]" ELSE v.value

(* transformer.to(value) of the columns that have a transformer: it wraps  *)
(* the text of the value it is given.                                      *)
transformTo(value) == "to(" \o value \o ")"

(* column.getEntityValue(where, transform): the value the record holds for *)
(* the column, transformed when asked and the column has a transformer.    *)
(* The transformer is given whatever the record holds, an operator         *)
(* descriptor included; it passes null through.                            *)
getEntityValue(column, where, transform) ==
    With((CHOOSE e \in {where[i] : i \in 1..Len(where)} : e.key = column.propertyPath).value,
         LAMBDA value :
           IF ~transform \/ ~column.transformer \/ value.kind = "null" THEN value
           ELSE PlainValue(transformTo(StoredValue(value))))

(* column.getEntityValue(id, transform) on an identity map. *)
getEntityIdValue(column, id, transform) ==
    IF transform /\ column.transformer THEN transformTo(id[column.propertyName])
    ELSE id[column.propertyName]

(* EntityMetadata.createPropertyPath(metadata, where): the keys, in order. *)
createPropertyPath(where) == [i \in 1..Len(where) |-> where[i].key]

(* The compilation state threaded through the nested map() callbacks:      *)
(* the heap, the running parameterIndex, the fragments produced.           *)
Compiled(H, parameterIndex, out) ==
    [h |-> H, parameterIndex |-> parameterIndex, ok |-> TRUE, err |-> "", out |-> out]
Failed(H, err) ==
    [h |-> H, parameterIndex |-> 0, ok |-> FALSE, err |-> err, out |-> <<>>]

NonEmpty(expressions) == SelectSeq(expressions, LAMBDA e : e # "")

Parenthesized(expressions) ==
    [i \in 1..Len(expressions) |-> "(" \o expressions[i] \o ")"]

(* realParameterValues.forEach (lines 1088-1109): binds the values one by  *)
(* one; parameters collects the placeholders.                              *)
RECURSIVE bindRealParameterValues(_, _, _, _, _, _, _)
bindRealParameterValues(H, b, parameterIndex, parameterName, parameterBaseCount, values, parameters) ==
    IF Len(values) = 0 THEN Compiled(H, parameterIndex, parameters)
    ELSE bindRealParameterValues(
             SetNative(H, b,
                 parameterName \o ToString(parameterBaseCount + Len(parameters)),
                 values[1]),
             b, parameterIndex + 1, parameterName, parameterBaseCount, Tail(values),
             Append(parameters,
                 createParameter(
                     parameterName \o ToString(parameterBaseCount + Len(parameters)),
                     parameterIndex + 1 - 1)))

parameterBaseCountOf(store, parameterName) ==
    Cardinality({ i \in 1..Len(store) : startsWith(store[i].name, parameterName) })

(* Lines 1073-1111: the parameters of an operator descriptor. *)
bindOperator(H, b, parameterIndex, operator, parameterName) ==
    IF ~operator.useParameter THEN Compiled(H, parameterIndex, <<>>)
    ELSE IF Len(operator.objectLiteralParameters) > 0
    THEN Bind(setParameters(H, b, operator.objectLiteralParameters[1]),
              LAMBDA r : Compiled(r.h, parameterIndex, <<>>))
    ELSE bindRealParameterValues(
             H, b, parameterIndex, parameterName,
             parameterBaseCountOf(StoreOf(H, b), parameterName),
             IF operator.multipleParameters THEN operator.value
             ELSE <<operator.value[1]>>,
             <<>>)

compileOperator(H, b, parameterIndex, operator, aliasPath, parameterName) ==
    Bind(bindOperator(H, b, parameterIndex, operator, parameterName),
         LAMBDA bound :
           With(computeFindOperatorExpression(H.driver, operator, aliasPath, bound.out),
                LAMBDA e : IF e.ok
                           THEN Compiled(bound.h, bound.parameterIndex, <<e.ret>>)
                           ELSE Failed(bound.h, e.err)))

(* The equality branch that emits the placeholder and binds nothing. *)
compileEquality_Unbound(H, b, parameterIndex, aliasPath, parameterName, value) ==
    Compiled(H, parameterIndex + 1,
             <<aliasPath \o " = "
                  \o createParameter(parameterName, parameterIndex + 1 - 1)>>)

compileEquality(H, b, parameterIndex, aliasPath, parameterName, value) ==
    Compiled(SetNative(H, b, parameterName, value), parameterIndex + 1,
             <<aliasPath \o " = "
                  \o createParameter(parameterName, parameterIndex + 1 - 1)>>)

(* Lines 1068-1129 that bind a parameter for a null value as well. *)
compileValue_NullBound(H, b, parameterIndex, parameterValue, aliasPath, parameterName) ==
    IF parameterValue.kind = "operator"
    THEN compileOperator(H, b, parameterIndex, parameterValue.operator[1],
                         aliasPath, parameterName)
    ELSE compileEquality(H, b, parameterIndex, aliasPath, parameterName,
                         parameterValue.value)

(* Lines 1068-1129: null, an operator descriptor or a plain value. *)
compileValue(H, b, parameterIndex, parameterValue, aliasPath, parameterName) ==
    IF parameterValue.kind = "null"
    THEN Compiled(H, parameterIndex, <<aliasPath \o " IS NULL">>)
    ELSE IF parameterValue.kind = "operator"
    THEN compileOperator(H, b, parameterIndex, parameterValue.operator[1],
                         aliasPath, parameterName)
    ELSE compileEquality(H, b, parameterIndex, aliasPath, parameterName,
                         parameterValue.value)

(* The body of columns.map(...) on an entity-mapped alias (lines 1046-1130) *)
compileColumn(H, b, parameterIndex, where, whereIndex, propertyPath, propertyIndex, column, columnIndex) ==
    compileValue(H, b, parameterIndex, getEntityValue(column, where, TRUE),
        IF MapOf(H, b).aliasNamePrefixingEnabled
        THEN Aliases[MapOf(H, b).mainAlias].name \o "." \o propertyPath
        ELSE column.propertyPath,
        "where_" \o ToString(whereIndex) \o "_" \o ToString(propertyIndex)
            \o "_" \o ToString(columnIndex))

RECURSIVE compileColumns(_, _, _, _, _, _, _, _, _)
compileColumns(st, b, where, whereIndex, propertyPath, propertyIndex, columns, columnIndex, out) ==
    IF columnIndex >= Len(columns)
    THEN Compiled(st.h, st.parameterIndex, <<Join(NonEmpty(out), " AND ")>>)
    ELSE Bind(compileColumn(st.h, b, st.parameterIndex, where, whereIndex,
                            propertyPath, propertyIndex,
                            columns[columnIndex + 1], columnIndex),
              LAMBDA r : compileColumns(r, b, where, whereIndex, propertyPath,
                                        propertyIndex, columns, columnIndex + 1,
                                        out \o r.out))

(* Lines 1035-1133 that skip a key without columns. *)
compilePropertyPath_SkipUnmapped(st, b, where, whereIndex, propertyPath, propertyIndex, columns) ==
    compileColumns(st, b, where, whereIndex, propertyPath, propertyIndex,
                   columns, 0, <<>>)

(* The body of propertyPaths.map(...) (lines 1035-1133). *)
compilePropertyPath(st, b, where, whereIndex, propertyPath, propertyIndex, columns) ==
    IF Len(columns) = 0 THEN Failed(st.h, EntityColumnNotFound(propertyPath))
    ELSE compileColumns(st, b, where, whereIndex, propertyPath, propertyIndex,
                        columns, 0, <<>>)

RECURSIVE compilePropertyPaths(_, _, _, _, _, _, _)
compilePropertyPaths(st, b, where, whereIndex, propertyPaths, propertyIndex, out) ==
    IF propertyIndex >= Len(propertyPaths)
    THEN Compiled(st.h, st.parameterIndex, <<Join(NonEmpty(out), " AND ")>>)
    ELSE Bind(compilePropertyPath(st, b, where, whereIndex,
                  propertyPaths[propertyIndex + 1], propertyIndex,
                  findColumnsWithPropertyPath(
                      EntityMetadatas[Aliases[MapOf(st.h, b).mainAlias].metadata],
                      propertyPaths[propertyIndex + 1])),
              LAMBDA r : compilePropertyPaths(r, b, where, whereIndex, propertyPaths,
                                              propertyIndex + 1, out \o r.out))

(* The body of Object.keys(where).map(...) on a table-only alias           *)
(* (lines 1140-1163); the callback's second argument, the index of the     *)
(* key, is named parameterIndex there and hides the outer counter.         *)
compileKey(H, b, key, parameterValue, whereIndex, parameterIndex) ==
    With(IF MapOf(H, b).aliasNamePrefixingEnabled
         THEN Aliases[MapOf(H, b).mainAlias].name \o "." \o key ELSE key,
         LAMBDA aliasPath :
           IF parameterValue.kind = "null"
           THEN Compiled(H, 0, <<aliasPath \o " IS NULL">>)
           ELSE Compiled(
                    SetNative(H, b,
                        "where_" \o ToString(whereIndex) \o "_" \o ToString(parameterIndex),
                        StoredValue(parameterValue)),
                    0,
                    <<aliasPath \o " = "
                        \o createParameter(
                             "where_" \o ToString(whereIndex) \o "_"
                                \o ToString(parameterIndex),
                             parameterIndex + 1 - 1)>>))

RECURSIVE compileKeys(_, _, _, _, _, _)
compileKeys(st, b, where, whereIndex, keyIndex, out) ==
    IF keyIndex >= Len(where)
    THEN Compiled(st.h, st.parameterIndex, <<Join(out, " AND ")>>)
    ELSE With(compileKey(st.h, b, where[keyIndex + 1].key, where[keyIndex + 1].value,
                         whereIndex, keyIndex),
              LAMBDA r : compileKeys(Compiled(r.h, st.parameterIndex, <<>>), b, where,
                                     whereIndex, keyIndex + 1, out \o r.out))

(* wheres.map(...): one AND-condition per record. *)
RECURSIVE compileWheres(_, _, _, _, _)
compileWheres(st, b, wheres, whereIndex, andConditions) ==
    IF whereIndex >= Len(wheres)
    THEN Compiled(st.h, st.parameterIndex, andConditions)
    ELSE Bind(IF Aliases[MapOf(st.h, b).mainAlias].hasMetadata
              THEN compilePropertyPaths(st, b, wheres[whereIndex + 1], whereIndex,
                       createPropertyPath(wheres[whereIndex + 1]), 0, <<>>)
              ELSE compileKeys(st, b, wheres[whereIndex + 1], whereIndex, 0, <<>>),
              LAMBDA r : compileWheres(r, b, wheres, whereIndex + 1,
                                       andConditions \o r.out))

(* Lines 1166-1171 that parenthesize a single record too. *)
joinAndConditions_AlwaysParenthesized(andConditions) ==
    Join(Parenthesized(andConditions), " OR ")

(* Lines 1166-1171: the records joined by OR. *)
joinAndConditions(andConditions) ==
    IF Len(andConditions) > 1 THEN Join(Parenthesized(andConditions), " OR ")
    ELSE Join(andConditions, "")

(* The structured-record branch (lines 1018-1174). *)
computeObjectWhere(H, b, where) ==
    IF MapOf(H, b).mainAlias = NoAlias THEN Throw(H, TypeError)
    ELSE With(compileWheres(Compiled(H, Len(StoreOf(H, b)), <<>>), b,
                            where.wheres, 0, <<>>),
              LAMBDA st :
                IF ~st.ok THEN Throw(st.h, st.err)
                ELSE Return(st.h, joinAndConditions(st.out)))

RECURSIVE computeWhereParameter(_, _, _)
RECURSIVE runWhereFactory(_, _, _)

pushWhere(H, b, type, condition) ==
    SetMapField(H, b, "wheres",
        Append(MapOf(H, b).wheres, [type |-> type, condition |-> condition]))

(* andWhere(where) of the builder subclasses: appends the compiled         *)
(* condition to expressionMap.wheres.                                      *)
andWhere(H, b, where) ==
    Bind(computeWhereParameter(H, b, where),
         LAMBDA r : Return(pushWhere(r.h, b, "and", r.ret), r.ret))

(* One call of a Brackets callback on the builder it was given. *)
runCall(H, b, call) ==
    CASE call.op = "setParameter" ->
           Return(setParameter(H, b, call.key, call.value), "")
      [] call.op = "setParameters" -> setParameters(H, b, call.parameters)
      [] OTHER -> andWhere(H, b, call.where)

(* where.whereFactory(qb): the calls of the callback, in order. *)
runWhereFactory(H, b, calls) ==
    IF Len(calls) = 0 THEN Return(H, "")
    ELSE Bind(runCall(H, b, calls[1]),
              LAMBDA r : runWhereFactory(r.h, b, Tail(calls)))

(* Lines 1005-1011: the nested builder of a Brackets value, the last of    *)
(* the heap; it has the main alias, the prefix setting and, by reference,  *)
(* the native parameters of b.                                             *)
createWhereQueryBuilder(H, b) ==
    With(createQueryBuilder(H, b),
         LAMBDA H1 :
           SetMapField(SetMapField(SetMapField(H1,
               Len(H1.qb), "mainAlias", MapOf(H, b).mainAlias),
               Len(H1.qb), "aliasNamePrefixingEnabled",
                   MapOf(H, b).aliasNamePrefixingEnabled),
               Len(H1.qb), "nativeParameters", StoreIdOf(H, b)))

InParentheses(whereString) ==
    IF whereString # "" THEN "(" \o whereString \o ")" ELSE ""

(* Lines 1013-1015 without the merge of the logical parameters. *)
finishBrackets_NoMerge(H, b, whereQueryBuilder) ==
    Return(H, InParentheses(createWhereExpressionString(H, whereQueryBuilder)))

(* Lines 1013-1015: render the nested conditions, merge the parameters. *)
finishBrackets(H, b, whereQueryBuilder) ==
    Bind(setParameters(H, b, getParameters(H, whereQueryBuilder)),
         LAMBDA merged :
           Return(merged.h,
                  InParentheses(createWhereExpressionString(H, whereQueryBuilder))))

(* The Brackets branch (lines 1004-1015).  The nested builder stays in the *)
(* heap after the call, behind the builders that existed before it.        *)
computeBrackets(H, b, where) ==
    Bind(runWhereFactory(createWhereQueryBuilder(H, b), Len(H.qb) + 1,
                         where.whereFactory),
         LAMBDA r : finishBrackets(r.h, b, Len(H.qb) + 1))

computeWhereParameter(H, b, where) ==
    IF where.kind = "string" THEN Return(H, where.text)
    ELSE IF where.kind = "brackets" THEN computeBrackets(H, b, where)
    ELSE IF where.kind = "function"
    THEN Bind(runWhereFactory(H, b, where.whereFactory),
              LAMBDA r : Return(r.h, where.text))
    ELSE IF where.kind = "object" THEN computeObjectWhere(H, b, where)
    ELSE Return(H, "")

whereIdName(index, secondIndex) ==
    "id_" \o ToString(index) \o "_" \o ToString(secondIndex)

(* The body of primaryColumns.forEach (lines 963-978). *)
whereIdColumn(H, b, id, index, primaryColumn, secondIndex, parameterIndex) ==
    Compiled(
        SetNative(H, b, whereIdName(index, secondIndex),
                  getEntityIdValue(primaryColumn, id, TRUE)),
        parameterIndex + 1,
        <<(IF MapOf(H, b).aliasNamePrefixingEnabled
           THEN escape(H, b, Aliases[MapOf(H, b).mainAlias].name) \o "." ELSE "")
          \o escape(H, b, primaryColumn.databaseName) \o " = "
          \o createParameter(whereIdName(index, secondIndex), parameterIndex)>>)

RECURSIVE whereIdColumns(_, _, _, _, _, _, _)
whereIdColumns(st, b, id, index, columns, secondIndex, whereSubStrings) ==
    IF secondIndex >= Len(columns)
    THEN Compiled(st.h, st.parameterIndex, <<Join(whereSubStrings, " AND ")>>)
    ELSE With(whereIdColumn(st.h, b, id, index, columns[secondIndex + 1],
                            secondIndex, st.parameterIndex),
              LAMBDA r : whereIdColumns(r, b, id, index, columns, secondIndex + 1,
                                        whereSubStrings \o r.out))

RECURSIVE whereIdStrings(_, _, _, _, _, _)
whereIdStrings(st, b, normalized, index, columns, whereStrings) ==
    IF index >= Len(normalized)
    THEN Compiled(st.h, st.parameterIndex, whereStrings)
    ELSE With(whereIdColumns(st, b, normalized[index + 1], index, columns, 0, <<>>),
              LAMBDA r : whereIdStrings(r, b, normalized, index + 1, columns,
                                        whereStrings \o r.out))

(* Lines 982-988 that parenthesize nothing. *)
joinWhereStrings_NoParentheses(whereStrings) ==
    IF Len(whereStrings) > 1 THEN Join(whereStrings, " OR ")
    ELSE IF Len(whereStrings) = 1 THEN whereStrings[1]
    ELSE "undefined"

(* Lines 982-988.  With no identity the result is whereStrings[0], that is *)
(* undefined.                                                              *)
joinWhereStrings(whereStrings) ==
    IF Len(whereStrings) > 1
    THEN "(" \o Join(Parenthesized(whereStrings), " OR ") \o ")"
    ELSE IF Len(whereStrings) = 1 THEN whereStrings[1]
    ELSE "undefined"

(* The general path of createWhereIdsExpression (lines 954-989): one       *)
(* equality per primary column and identity.                               *)
whereIdsGeneral(H, b, normalized, metadata) ==
    With(whereIdStrings(Compiled(H, Len(StoreOf(H, b)), <<>>), b, normalized, 0,
                        primaryColumns(metadata), <<>>),
         LAMBDA st : Return(st.h, joinWhereStrings(st.out)))

(* The fast path (lines 935-952): an In operator over the identity values. *)
whereIdsIn(H, b, normalized, primaryColumn) ==
    computeWhereParameter(H, b, ObjectWhere(<< <<
        [key |-> primaryColumn.propertyName,
         value |-> OperatorValue(In(
             [i \in 1..Len(normalized) |->
                 getEntityIdValue(primaryColumn, normalized[i], FALSE)]))] >> >>))

(* createWhereIdsExpression(ids): ids is the list of identity maps. *)
createWhereIdsExpression(H, b, ids) ==
    IF MapOf(H, b).mainAlias = NoAlias \/ ~Aliases[MapOf(H, b).mainAlias].hasMetadata
    THEN Throw(H, TypeError)
    ELSE With(EntityMetadatas[Aliases[MapOf(H, b).mainAlias].metadata],
           LAMBDA metadata :
             IF /\ ~hasMultiplePrimaryKeys(metadata)
                /\ Len(metadata.embeddeds) = 0
                /\ ~primaryColumns(metadata)[1].transformer
             THEN whereIdsIn(H, b, ids, primaryColumns(metadata)[1])
             ELSE whereIdsGeneral(H, b, ids, metadata))

(* whereInIds(ids) of the builder subclasses: appends the identity         *)
(* condition to expressionMap.wheres.                                      *)
andWhereInIds(H, b, ids) ==
    Bind(createWhereIdsExpression(H, b, ids),
         LAMBDA r : Return(pushWhere(r.h, b, "and", r.ret), r.ret))

-----------------------------------------------------------------------------
(* The Returning-Clause Compiler. *)

(* driver.isReturningSqlSupported(): a capability of the dialect. *)
isReturningSqlSupported(dialect) == dialect \in {"postgres", "mssql", "oracle"}

(* getReturningColumns(): the columns of the property paths of an array    *)
(* request, in the order of the request.  The callback reads mainAlias!    *)
(* for every element.                                                      *)
getReturningColumns(H, b) ==
    IF MapOf(H, b).returning.kind # "array" \/ Len(MapOf(H, b).returning.names) = 0
    THEN Return(H, <<>>)
    ELSE IF MapOf(H, b).mainAlias = NoAlias THEN Throw(H, TypeError)
    ELSE IF ~Aliases[MapOf(H, b).mainAlias].hasMetadata THEN Return(H, <<>>)
    ELSE Return(H, Flatten(
             [i \in 1..Len(MapOf(H, b).returning.names) |->
                 findColumnsWithPropertyPath(
                     EntityMetadatas[Aliases[MapOf(H, b).mainAlias].metadata],
                     MapOf(H, b).returning.names[i])]))

(* Lines 804-814 that add the extra columns to a string request too. *)
addExtraReturningColumns_AlsoToString(H, b, columns) ==
    IF /\ Len(MapOf(H, b).extraReturningColumns) > 0
       /\ isReturningSqlSupported(H.driver)
    THEN columns \o SelectSeq(MapOf(H, b).extraReturningColumns,
                              LAMBDA column : \A i \in 1..Len(columns) : columns[i] # column)
    ELSE columns

(* Lines 804-814: the extra columns that are not among the requested ones  *)
(* are appended; the filter runs before the push.                          *)
addExtraReturningColumns(H, b, columns) ==
    IF /\ MapOf(H, b).returning.kind # "string"
       /\ Len(MapOf(H, b).extraReturningColumns) > 0
       /\ isReturningSqlSupported(H.driver)
    THEN columns \o SelectSeq(MapOf(H, b).extraReturningColumns,
                              LAMBDA column : \A i \in 1..Len(columns) : columns[i] # column)
    ELSE columns

InsertedQueryTypes == {"insert", "update", "soft-delete", "restore"}

(* Lines 818-838: what precedes the escaped name of every column. *)
returningColumnPrefix(H, b) ==
    IF H.driver # "mssql" THEN Return(H, "")
    ELSE IF MapOf(H, b).queryType \in InsertedQueryTypes THEN Return(H, "INSERTED.")
    ELSE Bind(getMainTableName(H, b),
              LAMBDA r : Return(H, escape(H, b, r.ret) \o "."))

(* Lines 845-860 (Oracle): one output parameter per column; the index      *)
(* given to the placeholder is the size of the store after the assignment. *)
RECURSIVE bindOutputParameters(_, _, _, _)
bindOutputParameters(H, b, columns, parameters) ==
    IF Len(columns) = 0 THEN Return(H, parameters)
    ELSE With(SetNative(H, b, "output_" \o columns[1].databaseName, "BIND_OUT"),
              LAMBDA H1 : bindOutputParameters(H1, b, Tail(columns),
                  Append(parameters,
                         createParameter("output_" \o columns[1].databaseName,
                                         Len(StoreOf(H1, b))))))

(* Lines 841-871: what follows the column list. *)
returningColumnsSuffix(H, b, columns) ==
    IF H.driver = "oracle"
    THEN With(bindOutputParameters(H, b, columns, <<>>),
              LAMBDA r : Return(r.h, " INTO " \o Join(r.ret, ", ")))
    ELSE IF H.driver = "mssql" /\ MapOf(H, b).queryType \in {"insert", "update"}
    THEN Return(H, " INTO @OutputTable")
    ELSE Return(H, "")

(* Lines 816-878: the clause for the columns, or the request itself. *)
renderReturningColumns(H, b, columns) ==
    IF Len(columns) > 0
    THEN Bind(returningColumnPrefix(H, b),
              LAMBDA prefix :
                With(returningColumnsSuffix(H, b, columns),
                     LAMBDA suffix :
                       Return(suffix.h,
                              Join([i \in 1..Len(columns) |->
                                       prefix.ret \o escape(H, b, columns[i].databaseName)],
                                   ", ")
                                \o suffix.ret)))
    ELSE IF MapOf(H, b).returning.kind = "string"
    THEN Return(H, MapOf(H, b).returning.text)
    ELSE Return(H, "")

createReturningExpression(H, b) ==
    Bind(getReturningColumns(H, b),
         LAMBDA r : renderReturningColumns(H, b, addExtraReturningColumns(H, b, r.ret)))

-----------------------------------------------------------------------------
(* The state machine.  Each action is one call on a builder of the heap.   *)

NoCall ==
    [op |-> "", qb |-> 0, ok |-> TRUE, err |-> "", ret |-> "",
     key |-> "", value |-> "", parameters |-> <<>>, natives |-> <<>>,
     where |-> StringWhere(""), ids |-> <<>>, nested |-> <<>>,
     statement |-> "", again |-> FALSE,
     before |-> [qb |-> <<>>, em |-> <<>>, ns |-> <<>>, driver |-> ""]]

Builders == 1..Len(queryBuilders)

(* The builders of the parent chain of b, b included. *)
RECURSIVE Chain(_, _)
Chain(H, b) ==
    IF b = 0 THEN {} ELSE {b} \cup Chain(H, MapOf(H, b).parentQueryBuilder)

(* Commits the heap a call leaves.  The builders a Brackets call made for  *)
(* itself are unreachable afterwards and are dropped: nqb, nem and nns are *)
(* the sizes of the three tables to keep.                                  *)
Commit(H, nqb, nem, nns) ==
    /\ queryBuilders' = SubSeq(H.qb, 1, nqb)
    /\ expressionMaps' = SubSeq(H.em, 1, nem)
    /\ nativeStores' = SubSeq(H.ns, 1, nns)
    /\ driver' = H.driver
    /\ ops' = ops + 1
    /\ UNCHANGED <<queryRunners, executions>>

CommitSame(H) == Commit(H, Len(queryBuilders), Len(expressionMaps), Len(nativeStores))

CommitAll(H) == Commit(H, Len(H.qb), Len(H.em), Len(H.ns))

EmptyHeap(dialect) == [qb |-> <<>>, em |-> <<>>, ns |-> <<>>, driver |-> dialect]

(* The heap after connection.createQueryBuilder(): one builder, with the   *)
(* main alias and the prefix setting its subclass gave it.                 *)
InitHeap(alias, dialect, prefixing) ==
    SetMapField(
        IF alias = NoAlias THEN constructor(EmptyHeap(dialect), 0, 0)
        ELSE setMainAlias(constructor(EmptyHeap(dialect), 0, 0), 1, alias),
        1, "aliasNamePrefixingEnabled", prefixing)

InitWith(mainAliases, drivers, prefixings) ==
    /\ driver \in drivers
    /\ \E alias \in mainAliases, prefixing \in prefixings :
         /\ queryBuilders = InitHeap(alias, driver, prefixing).qb
         /\ expressionMaps = InitHeap(alias, driver, prefixing).em
         /\ nativeStores = InitHeap(alias, driver, prefixing).ns
    /\ last = NoCall
    /\ explicitDiscriminator = {}
    /\ cloneOf = <<0>>
    /\ ops = 0
    /\ queryRunners = <<>>
    /\ executions = <<>>

(* Does a callback supply DiscriminatorKey as a logical parameter? *)
RECURSIVE SuppliesDiscriminator(_)
SuppliesDiscriminator(calls) ==
    \E i \in 1..Len(calls) :
        \/ calls[i].op = "setParameter" /\ calls[i].key = DiscriminatorKey
        \/ calls[i].op = "setParameters" /\ DiscriminatorKey \in DOMAIN calls[i].parameters
        \/ calls[i].op = "andWhere" /\ SuppliesDiscriminator(calls[i].where.whereFactory)

Called(op, b) == [NoCall EXCEPT !.op = op, !.qb = b, !.before = Heap]

SetParameter(b, key, value) ==
    /\ ops < MaxOps
    /\ CommitSame(setParameter(Heap, b, key, value))
    /\ last' = [Called("setParameter", b) EXCEPT !.key = key, !.value = value]
    /\ explicitDiscriminator' =
          IF key = DiscriminatorKey THEN explicitDiscriminator \cup {b}
          ELSE explicitDiscriminator
    /\ UNCHANGED cloneOf

SetParametersDone(b, parameters, r) ==
    /\ ops < MaxOps
    /\ CommitSame(r.h)
    /\ last' = [Called("setParameters", b) EXCEPT
                   !.parameters = parameters, !.ok = r.ok, !.err = r.err]
    /\ explicitDiscriminator' =
          IF r.ok /\ DiscriminatorKey \in DOMAIN parameters
          THEN explicitDiscriminator \cup Chain(Heap, b)
          ELSE explicitDiscriminator
    /\ UNCHANGED cloneOf

SetParameters(b, parameters) ==
    SetParametersDone(b, parameters, setParameters(Heap, b, parameters))

SetNativeParameters(b, parameters) ==
    /\ ops < MaxOps
    /\ CommitSame(setNativeParameters(Heap, b, parameters))
    /\ last' = [Called("setNativeParameters", b) EXCEPT !.natives = parameters]
    /\ UNCHANGED <<explicitDiscriminator, cloneOf>>

GetParameters(b) ==
    /\ ops < MaxOps
    /\ CommitSame(Heap)
    /\ last' = [Called("getParameters", b) EXCEPT !.parameters = getParameters(Heap, b)]
    /\ UNCHANGED <<explicitDiscriminator, cloneOf>>

SubQuery(b) ==
    /\ ops < MaxOps
    /\ Len(queryBuilders) < MaxBuilders
    /\ CommitAll(subQuery(Heap, b))
    /\ last' = Called("subQuery", b)
    /\ cloneOf' = Append(cloneOf, 0)
    /\ UNCHANGED explicitDiscriminator

Clone(b) ==
    /\ ops < MaxOps
    /\ Len(queryBuilders) < MaxBuilders
    /\ CommitAll(clone(Heap, b))
    /\ last' = Called("clone", b)
    /\ cloneOf' = Append(cloneOf, b)
    /\ explicitDiscriminator' =
          IF b \in explicitDiscriminator
          THEN explicitDiscriminator \cup {Len(queryBuilders) + 1}
          ELSE explicitDiscriminator

(* For a Brackets value, nested keeps the logical parameters the callback  *)
(* left on the nested builder.                                             *)
AndWhereDone(b, where, r) ==
    /\ ops < MaxOps
    /\ CommitSame(r.h)
    /\ last' = [Called("andWhere", b) EXCEPT
                   !.where = where, !.ok = r.ok, !.err = r.err, !.ret = r.ret,
                   !.nested = IF where.kind = "brackets" /\ r.ok
                              THEN MapOf(r.h, Len(queryBuilders) + 1).parameters
                              ELSE <<>>]
    /\ explicitDiscriminator' =
          IF r.ok /\ SuppliesDiscriminator(where.whereFactory)
          THEN explicitDiscriminator \cup Chain(Heap, b)
          ELSE explicitDiscriminator
    /\ UNCHANGED cloneOf

AndWhere(b, where) == AndWhereDone(b, where, andWhere(Heap, b, where))

AndWhereInIdsDone(b, ids, r) ==
    /\ ops < MaxOps
    /\ CommitSame(r.h)
    /\ last' = [Called("whereInIds", b) EXCEPT
                   !.ids = ids, !.ok = r.ok, !.err = r.err, !.ret = r.ret]
    /\ UNCHANGED <<explicitDiscriminator, cloneOf>>

AndWhereInIds(b, ids) == AndWhereInIdsDone(b, ids, andWhereInIds(Heap, b, ids))

(* A call that reads the builder and changes nothing. *)
Answered(op, b, r) ==
    /\ ops < MaxOps
    /\ CommitSame(r.h)
    /\ last' = [Called(op, b) EXCEPT !.ok = r.ok, !.err = r.err, !.ret = r.ret]
    /\ UNCHANGED <<explicitDiscriminator, cloneOf>>

GetAlias(b) == Answered("alias", b, getAlias(Heap, b))

GetMainTableName(b) == Answered("getMainTableName", b, getMainTableName(Heap, b))

CreateWhereExpression(b) ==
    Answered("createWhereExpression", b, createWhereExpression(Heap, b))

CreateReturningExpression(b) ==
    Answered("createReturningExpression", b, createReturningExpression(Heap, b))

(* setQueryRunner(queryRunner) *)
setQueryRunner(H, b, queryRunner) == [H EXCEPT !.qb[b].queryRunner = queryRunner]

SetQueryRunner(b, queryRunner) ==
    /\ ops < MaxOps
    /\ CommitSame(setQueryRunner(Heap, b, queryRunner))
    /\ last' = Called("setQueryRunner", b)
    /\ UNCHANGED <<explicitDiscriminator, cloneOf>>

(* A query runner: who created it and how many times release() was called *)
(* on it.                                                                  *)
QueryRunner(createdBy) == [createdBy |-> createdBy, released |-> 0]

(* obtainQueryRunner(): this.queryRunner, or the query runner that         *)
(* connection.createQueryRunner() adds to the heap.                        *)
obtainQueryRunner(b) ==
    IF queryBuilders[b].queryRunner # 0 THEN queryBuilders[b].queryRunner
    ELSE Len(queryRunners) + 1

(* execute() up to its first await (lines 466-469).  getQuery() belongs to *)
(* the subclass: built is whether it returns.  When it does, the builder   *)
(* obtains a query runner, starts the query and waits for it.              *)
Execute(b, built) ==
    /\ ops < MaxOps
    /\ ops' = ops + 1
    /\ last' = [Called("execute", b) EXCEPT !.ok = built]
    /\ queryRunners' =
          IF built /\ queryBuilders[b].queryRunner = 0
          THEN Append(queryRunners, QueryRunner("execute")) ELSE queryRunners
    /\ executions' = Append(executions,
          [qb |-> b, queryRunner |-> IF built THEN obtainQueryRunner(b) ELSE 0,
           pc |-> IF built THEN "query" ELSE "done", ok |-> built])
    /\ UNCHANGED <<queryBuilders, expressionMaps, nativeStores, driver,
                   explicitDiscriminator, cloneOf>>

(* The position of an activation after release(): autoSave() of a sql.js   *)
(* driver, or the end.                                                     *)
AfterRelease == IF driver = "sqljs" THEN "autoSave" ELSE "done"

(* The query settles and the finally block starts (lines 470-474): the     *)
(* query runner of the activation is compared with the one the builder has *)
(* now, and released when they differ.                                     *)
QueryFinished(e, succeeded) ==
    /\ executions[e].pc = "query"
    /\ IF executions[e].queryRunner # queryBuilders[executions[e].qb].queryRunner
       THEN /\ queryRunners' =
                  [queryRunners EXCEPT ![executions[e].queryRunner].released = @ + 1]
            /\ executions' =
                  [executions EXCEPT ![e].pc = "release", ![e].ok = succeeded]
       ELSE /\ queryRunners' = queryRunners
            /\ executions' =
                  [executions EXCEPT ![e].pc = AfterRelease, ![e].ok = succeeded]
    /\ UNCHANGED <<queryBuilders, expressionMaps, nativeStores, driver, last,
                   explicitDiscriminator, cloneOf, ops>>

(* release() settles (line 473): its failure ends the activation. *)
ReleaseFinished(e, succeeded) ==
    /\ executions[e].pc = "release"
    /\ executions' =
          IF succeeded THEN [executions EXCEPT ![e].pc = AfterRelease]
          ELSE [executions EXCEPT ![e].pc = "done", ![e].ok = FALSE]
    /\ UNCHANGED <<queryBuilders, expressionMaps, nativeStores, driver, last,
                   explicitDiscriminator, cloneOf, ops, queryRunners>>

(* autoSave() settles (lines 475-477). *)
AutoSaveFinished(e, succeeded) ==
    /\ executions[e].pc = "autoSave"
    /\ executions' =
          [executions EXCEPT ![e].pc = "done", ![e].ok = @ /\ succeeded]
    /\ UNCHANGED <<queryBuilders, expressionMaps, nativeStores, driver, last,
                   explicitDiscriminator, cloneOf, ops, queryRunners>>

(* replacePropertyNames(statement), and again on the text it returned. *)
ReplacePropertyNamesDone(b, statement, again, r) ==
    /\ ops < MaxOps
    /\ CommitSame(r.h)
    /\ last' = [Called("replacePropertyNames", b) EXCEPT
                   !.statement = statement, !.again = again, !.ret = r.ret]
    /\ UNCHANGED <<explicitDiscriminator, cloneOf>>

ReplacePropertyNames(b, statement) ==
    ReplacePropertyNamesDone(b, statement, FALSE,
        Return(Heap, replacePropertyNames(Heap, b, statement)))

ReplaceAgain(b) ==
    /\ last.op = "replacePropertyNames" /\ last.qb = b
    /\ ReplacePropertyNamesDone(b, last.ret, TRUE,
           Return(Heap, replacePropertyNames(Heap, b, last.ret)))

-----------------------------------------------------------------------------
(* The parameter ledger: builders, sub-query builders and clones. *)

Keys == {"name", DiscriminatorKey}
Values == {"v1", FunctionValue}

ParameterMaps == UNION { [D -> Values] : D \in SUBSET Keys }

NativeMaps == { <<[name |-> "limit", value |-> v]>> : v \in Values }

IdEqualsV1 == ObjectWhere(<< << [key |-> "id", value |-> PlainValue("v1")] >> >>)

LedgerWheres ==
    { IdEqualsV1,
      Brackets(<< CallSetParameter("name", "v1"), CallAndWhere(IdEqualsV1) >>) }

Init == InitWith({"post"}, {"mysql"}, {TRUE})

Next ==
    \/ \E b \in Builders, key \in Keys, value \in Values : SetParameter(b, key, value)
    \/ \E b \in Builders, parameters \in ParameterMaps : SetParameters(b, parameters)
    \/ \E b \in Builders, parameters \in NativeMaps : SetNativeParameters(b, parameters)
    \/ \E b \in Builders : SubQuery(b)
    \/ \E b \in Builders : Clone(b)
    \/ \E b \in Builders, where \in LedgerWheres : AndWhere(b, where)

Spec == Init /\ [][Next]_vars

-----------------------------------------------------------------------------
(* Brackets and the discriminator: one root builder on each kind of main   *)
(* alias, its sub-query builders, and Brackets callbacks.                  *)

BracketsAliases == {NoAlias, "raw", "post", "animal", "cat", "dog"}

BracketsWheres ==
    { Brackets(<<>>),
      Brackets(<< CallSetParameter("name", "v1"), CallAndWhere(StringWhere("1=1")) >>),
      Brackets(<< CallSetParameter(DiscriminatorKey, "v1") >>),
      Brackets(<< CallSetParameters("name" :> "v2"),
                  CallAndWhere(Brackets(<< CallSetParameter("inner", "v1"),
                                           CallAndWhere(IdEqualsV1) >>)) >>),
      Brackets(<< CallSetParameter("name", FunctionValue) >>) }

BracketsInit == InitWith(BracketsAliases, {"mysql"}, {TRUE})

BracketsNext ==
    \/ \E b \in Builders, key \in Keys : SetParameter(b, key, "v1")
    \/ \E b \in Builders : GetParameters(b)
    \/ \E b \in Builders : SubQuery(b)
    \/ \E b \in Builders, where \in BracketsWheres : AndWhere(b, where)

BracketsSpec == BracketsInit /\ [][BracketsNext]_vars

-----------------------------------------------------------------------------
(* Condition compilations: structured records, record sequences, operator  *)
(* descriptors, Brackets and identity lookups on one builder.              *)

MaxIds == 2
MaxCompilations == 2

CompileAliases == {"raw", "post", "member", "ledger"}

Record1(key, value) == << [key |-> key, value |-> value] >>

CompileWheres ==
    { ObjectWhere(<< Record1("id", PlainValue("v1")) >>),
      ObjectWhere(<< Record1("id", PlainValue("v2")) >>),
      ObjectWhere(<< Record1("id", PlainValue("v1")), Record1("title", NullValue) >>),
      ObjectWhere(<< Record1("id", OperatorValue(In(<<"v1", "v2">>))) >>),
      ObjectWhere(<< Record1("title", OperatorValue(NotOperator(ILike("v1")))) >>),
      ObjectWhere(<< Record1("id", OperatorValue(Between("v1", "v2"))) >>),
      ObjectWhere(<< << [key |-> "tenantId", value |-> PlainValue("v1")],
                        [key |-> "localId", value |-> PlainValue("v2")] >> >>),
      Brackets(<< CallAndWhere(ObjectWhere(<< Record1("id", PlainValue("v2")) >>)) >>) }

(* The identity maps ensureEntityIdMap gives for the entity of an alias. *)
IdentityMaps(alias) ==
    IF alias = "member"
    THEN { [tenantId |-> "v1", localId |-> v] : v \in {"v1", "v2"} }
    ELSE { [id |-> v] : v \in {"v1", "v2"} }

IdentityLists(alias) ==
    UNION { [1..n -> IdentityMaps(alias)] : n \in 0..MaxIds }

CompileInit == InitWith(CompileAliases, {"mysql", "postgres"}, {TRUE, FALSE})

CompileNext ==
    \/ \E b \in Builders, where \in CompileWheres :
          ops < MaxCompilations /\ AndWhere(b, where)
    \/ \E b \in Builders :
          \E ids \in IdentityLists(MapOf(Heap, b).mainAlias) :
              ops < MaxCompilations /\ AndWhereInIds(b, ids)

CompileSpec == CompileInit /\ [][CompileNext]_vars

-----------------------------------------------------------------------------
(* Structured records: null values, operator descriptors and their         *)
(* negations, unmapped keys and record sequences, on entity-mapped and     *)
(* table-only main aliases.                                                *)

RecordAliases == {"raw", "post", "member", "ledger"}

Record2(key1, value1, key2, value2) ==
    << [key |-> key1, value |-> value1], [key |-> key2, value |-> value2] >>

NegatedOperators ==
    { Between("v1", "v2"), In(<<"v1", "v2">>), In(<<>>), ILike("v1"), IsNull,
      LessThan("v1"), NotOperator(Between("v1", "v2")) }

RecordOperators ==
    NegatedOperators \cup { NotOperator(child) : child \in NegatedOperators }
       \cup { NotValue("v1") }

RecordWheres ==
    { ObjectWhere(<< Record1("title", OperatorValue(operator)) >>) :
          operator \in RecordOperators }
    \cup
    { ObjectWhere(<< Record1("id", OperatorValue(In(<<>>))) >>),
      ObjectWhere(<< Record1("id", NullValue) >>),
      ObjectWhere(<< Record2("id", PlainValue("v1"), "title", NullValue) >>),
      ObjectWhere(<< Record2("title", NullValue, "id", PlainValue("v1")) >>),
      ObjectWhere(<< Record1("id", PlainValue("v1")),
                     Record2("id", PlainValue("v2"), "title", PlainValue("v1")) >>),
      ObjectWhere(<< Record1("id", PlainValue("v1")), Record1("id", NullValue),
                     Record1("id", PlainValue("v2")) >>),
      ObjectWhere(<< Record2("tenantId", PlainValue("v1"), "localId", NullValue),
                     Record1("role", PlainValue("v2")) >>),
      ObjectWhere(<< Record1("id", PlainValue("v1")),
                     Record2("id", PlainValue("v2"), "name", PlainValue("v1")) >>),
      ObjectWhere(<<>>) }

RecordIdentityLists(alias) == { ids \in IdentityLists(alias) : Len(ids) <= 1 }

RecordInit == InitWith(RecordAliases, {"mysql", "postgres"}, {TRUE, FALSE})

RecordNext ==
    \/ \E b \in Builders, where \in RecordWheres :
          ops < MaxCompilations /\ AndWhere(b, where)
    \/ \E b \in Builders :
          \E ids \in RecordIdentityLists(MapOf(Heap, b).mainAlias) :
              ops < MaxCompilations /\ AndWhereInIds(b, ids)

RecordSpec == RecordInit /\ [][RecordNext]_vars

-----------------------------------------------------------------------------
(* The WHERE clause: builders with and without a main alias, of a select   *)
(* or an update query, with and without deleted rows, with and without an  *)
(* appended condition.                                                     *)

WhereAliases == {NoAlias, "raw", "post", "article", "draft", "cat"}
QueryTypes == {"select", "update"}
ExtraConditions == {"", "id > 0"}

WhereWheres ==
    { StringWhere("id = :id"), StringWhere(""),
      ObjectWhere(<< Record1("id", PlainValue("v1")) >>) }

WhereIdentityLists == { << [id |-> "v1"] >> }

(* The builder after its subclass has set the query type, the flag of      *)
(* deleted rows and the appended condition.                                *)
WhereHeap(alias, prefixing, queryType, withDeleted, extra) ==
    SetMapField(SetMapField(SetMapField(InitHeap(alias, "mysql", prefixing),
        1, "queryType", queryType),
        1, "withDeleted", withDeleted),
        1, "extraAppendedAndWhereCondition", extra)

WhereInit ==
    /\ driver = "mysql"
    /\ \E alias \in WhereAliases, prefixing \in BOOLEAN, queryType \in QueryTypes,
          withDeleted \in BOOLEAN, extra \in ExtraConditions :
         /\ queryBuilders = WhereHeap(alias, prefixing, queryType, withDeleted, extra).qb
         /\ expressionMaps = WhereHeap(alias, prefixing, queryType, withDeleted, extra).em
         /\ nativeStores = WhereHeap(alias, prefixing, queryType, withDeleted, extra).ns
    /\ last = NoCall
    /\ explicitDiscriminator = {}
    /\ cloneOf = <<0>>
    /\ ops = 0
    /\ queryRunners = <<>>
    /\ executions = <<>>

WhereNext ==
    \/ \E b \in Builders, where \in WhereWheres : AndWhere(b, where)
    \/ \E b \in Builders, ids \in WhereIdentityLists : AndWhereInIds(b, ids)
    \/ \E b \in Builders : GetAlias(b)
    \/ \E b \in Builders : GetMainTableName(b)
    \/ \E b \in Builders : CreateWhereExpression(b)

WhereSpec == WhereInit /\ [][WhereNext]_vars

-----------------------------------------------------------------------------
(* Property-path substitution: one or two entity-mapped aliases, with and  *)
(* without alias prefix, with and without escaping, on condition texts.    *)

AliasLists == { <<"post">>, <<"tag">>, <<"post", "tag">>, <<"tag", "post">>, <<"raw", "post">> }

Statements ==
    { "id = :id", "post.id = :id", "post.title", "title", "tag.name = :n", "name",
      "tag.title", "(post.id,post.title)", "middleName = :x", "post.middleName = :x",
      "tag.nameid=tag.name", "id=1 AND title=2", "x.post.id", "post.id.x",
      "a\nid", "id\n= 1", "post.title\nAND a\npost.id", "(name)",
      "tag.nameid\ntag.name" }

(* expressionMap.createAlias(...) of a join: one more alias in scope. *)
addAlias(H, b, joined) ==
    SetMapField(H, b, "aliases", Append(MapOf(H, b).aliases, joined))

(* The builder with the first alias as main alias and the others joined. *)
RECURSIVE addAliases(_, _, _)
addAliases(H, b, joined) ==
    IF Len(joined) = 0 THEN H
    ELSE addAliases(addAlias(H, b, joined[1]), b, Tail(joined))

SubstitutionHeap(aliases, prefixing, disableEscaping) ==
    SetMapField(addAliases(InitHeap(aliases[1], "mysql", prefixing), 1, Tail(aliases)),
                1, "disableEscaping", disableEscaping)

SubstitutionInit ==
    /\ driver = "mysql"
    /\ \E aliases \in AliasLists, prefixing \in BOOLEAN, disableEscaping \in BOOLEAN :
         /\ queryBuilders = SubstitutionHeap(aliases, prefixing, disableEscaping).qb
         /\ expressionMaps = SubstitutionHeap(aliases, prefixing, disableEscaping).em
         /\ nativeStores = SubstitutionHeap(aliases, prefixing, disableEscaping).ns
    /\ last = NoCall
    /\ explicitDiscriminator = {}
    /\ cloneOf = <<0>>
    /\ ops = 0
    /\ queryRunners = <<>>
    /\ executions = <<>>

SubstitutionNext ==
    \/ \E b \in Builders, statement \in Statements : ReplacePropertyNames(b, statement)
    \/ \E b \in Builders : ReplaceAgain(b)

SubstitutionSpec == SubstitutionInit /\ [][SubstitutionNext]_vars

-----------------------------------------------------------------------------
(* The RETURNING clause: a write statement on each kind of main alias and  *)
(* dialect, with each kind of request and with extra columns.              *)

ReturningAliases == {NoAlias, "raw", "post", "member"}
ReturningDrivers == {"mysql", "postgres", "mssql", "oracle"}
ReturningQueryTypes == {"insert", "delete"}

ReturningRequests ==
    { NoReturning, ReturningString(""), ReturningString("*"), ReturningArray(<<>>),
      ReturningArray(<<"id">>), ReturningArray(<<"id", "id">>),
      ReturningArray(<<"title", "id">>), ReturningArray(<<"role", "unknown">>) }

(* The extra columns are columns of the entity of the main alias. *)
ExtraReturningColumns(alias) ==
    IF alias = NoAlias \/ ~Aliases[alias].hasMetadata THEN { <<>> }
    ELSE { <<>>, primaryColumns(EntityMetadatas[Aliases[alias].metadata]),
           EntityMetadatas[Aliases[alias].metadata].columns }

ReturningHeap(alias, dialect, queryType, returning, extraReturningColumns) ==
    SetMapField(SetMapField(SetMapField(InitHeap(alias, dialect, TRUE),
        1, "queryType", queryType),
        1, "returning", returning),
        1, "extraReturningColumns", extraReturningColumns)

ReturningInit ==
    /\ driver \in ReturningDrivers
    /\ \E alias \in ReturningAliases, queryType \in ReturningQueryTypes,
          returning \in ReturningRequests :
         \E extra \in ExtraReturningColumns(alias) :
           /\ queryBuilders = ReturningHeap(alias, driver, queryType, returning, extra).qb
           /\ expressionMaps = ReturningHeap(alias, driver, queryType, returning, extra).em
           /\ nativeStores = ReturningHeap(alias, driver, queryType, returning, extra).ns
    /\ last = NoCall
    /\ explicitDiscriminator = {}
    /\ cloneOf = <<0>>
    /\ ops = 0
    /\ queryRunners = <<>>
    /\ executions = <<>>

ReturningNext ==
    \/ \E b \in Builders, parameters \in NativeMaps :
          ops < MaxCompilations /\ SetNativeParameters(b, parameters)
    \/ \E b \in Builders : ops < MaxCompilations /\ CreateReturningExpression(b)

ReturningSpec == ReturningInit /\ [][ReturningNext]_vars

-----------------------------------------------------------------------------
(* Execution: a builder made with or without a query runner of the         *)
(* caller, its clones, and the activations of execute() with the calls     *)
(* that can happen while a query is running.                               *)

CallerQueryRunners == {1, 2}

ExecuteInit ==
    /\ driver \in {"mysql", "sqljs"}
    /\ \E queryRunner \in {0, 1} :
         /\ queryBuilders = setMainAlias(constructor(EmptyHeap(driver), 0, queryRunner), 1, "post").qb
         /\ expressionMaps = setMainAlias(constructor(EmptyHeap(driver), 0, queryRunner), 1, "post").em
         /\ nativeStores = setMainAlias(constructor(EmptyHeap(driver), 0, queryRunner), 1, "post").ns
    /\ last = NoCall
    /\ explicitDiscriminator = {}
    /\ cloneOf = <<0>>
    /\ ops = 0
    /\ queryRunners = [r \in CallerQueryRunners |-> QueryRunner("caller")]
    /\ executions = <<>>

ExecuteNext ==
    \/ \E b \in Builders, built \in BOOLEAN : Execute(b, built)
    \/ \E b \in Builders, queryRunner \in CallerQueryRunners : SetQueryRunner(b, queryRunner)
    \/ \E b \in Builders : Clone(b)
    \/ \E e \in 1..Len(executions), succeeded \in BOOLEAN : QueryFinished(e, succeeded)
    \/ \E e \in 1..Len(executions), succeeded \in BOOLEAN : ReleaseFinished(e, succeeded)
    \/ \E e \in 1..Len(executions), succeeded \in BOOLEAN : AutoSaveFinished(e, succeeded)

ExecuteSpec == ExecuteInit /\ [][ExecuteNext]_vars

-----------------------------------------------------------------------------
(* Reading the state for the properties below. *)

HeapNext == [qb |-> queryBuilders', em |-> expressionMaps', ns |-> nativeStores',
             driver |-> driver']

StoredParameters(b) == MapOf(Heap, b).parameters

(* The position of the first occurrence of character c at or after i, or   *)
(* Len(text) + 1.                                                          *)
RECURSIVE IndexOf(_, _, _)
IndexOf(text, c, i) ==
    IF i > Len(text) THEN Len(text) + 1
    ELSE IF CharAt(text, i) = c THEN i
    ELSE IndexOf(text, c, i + 1)

(* The parameter names of the placeholders "{name#index}" of a fragment. *)
RECURSIVE PlaceholderNamesFrom(_, _)
PlaceholderNamesFrom(text, i) ==
    IF IndexOf(text, "{", i) > Len(text) THEN {}
    ELSE {SubSeq(text, IndexOf(text, "{", i) + 1,
                 IndexOf(text, "#", IndexOf(text, "{", i)) - 1)}
         \cup PlaceholderNamesFrom(text, IndexOf(text, "#", IndexOf(text, "{", i)) + 1)

PlaceholderNames(text) == PlaceholderNamesFrom(text, 1)

(* Does part occur in text? *)
Includes(text, part) ==
    \E i \in 1..Len(text) :
        i + Len(part) - 1 <= Len(text) /\ SubSeq(text, i, i + Len(part) - 1) = part

(* The elements of an array value "[a,b]". *)
RECURSIVE SplitFrom(_, _)
SplitFrom(text, i) ==
    IF i > Len(text) THEN {}
    ELSE {SubSeq(text, i, IndexOf(text, ",", i) - 1)}
         \cup SplitFrom(text, IndexOf(text, ",", i) + 1)

ArrayElements(text) ==
    IF Len(text) < 2 \/ CharAt(text, 1) # "[" \/ CharAt(text, Len(text)) # "]" THEN {}
    ELSE SplitFrom(SubSeq(text, 2, Len(text) - 1), 1)

MainMetadata(b) == EntityMetadatas[Aliases[MapOf(Heap, b).mainAlias].metadata]

HasMetadata(b) ==
    MapOf(Heap, b).mainAlias # NoAlias /\ Aliases[MapOf(Heap, b).mainAlias].hasMetadata

-----------------------------------------------------------------------------
(* C1: setParameter and setParameters both fail at the call when a         *)
(* supplied logical value is a function, so no stored logical parameter of *)
(* any builder is ever a function.                                         *)
C1_FunctionValuesRejected ==
    /\ (last.op = "setParameter" /\ IsFunction(last.value)) => ~last.ok
    /\ (last.op = "setParameters"
          /\ \E key \in DOMAIN last.parameters : IsFunction(last.parameters[key]))
       => ~last.ok
    /\ \A b \in Builders : \A key \in DOMAIN StoredParameters(b) :
          ~IsFunction(StoredParameters(b)[key])

-----------------------------------------------------------------------------
(* C2: after a successful setParameters(map), every key of the map has its *)
(* value in the logical parameters of the builder and of every ancestor in *)
(* its parent chain; after setNativeParameters(map), which validates       *)
(* nothing and cannot fail, the same holds of the native parameters.       *)
C2_ParentPropagation ==
    /\ (last.op = "setParameters" /\ last.ok) =>
          \A a \in Chain(Heap, last.qb) : \A key \in DOMAIN last.parameters :
              /\ key \in DOMAIN StoredParameters(a)
              /\ StoredParameters(a)[key] = last.parameters[key]
    /\ (last.op = "setNativeParameters") =>
          /\ last.ok
          /\ \A a \in Chain(Heap, last.qb) : \A i \in 1..Len(last.natives) :
                /\ HasNative(StoreOf(Heap, a), last.natives[i].name)
                /\ NativeValue(StoreOf(Heap, a), last.natives[i].name)
                      = last.natives[i].value

(* A builder with a parent and a grandparent has just taken a non-empty    *)
(* map that none of the three held before.                                 *)
C2_Witness ==
    /\ last.op = "setParameters" /\ last.ok
    /\ Cardinality(Chain(Heap, last.qb)) = 3
    /\ "name" \in DOMAIN last.parameters
    /\ \A a \in Chain(Heap, last.qb) : "name" \notin DOMAIN MapOf(last.before, a).parameters

-----------------------------------------------------------------------------
Untouched(b) ==
    /\ MapOf(HeapNext, b) = MapOf(Heap, b)
    /\ StoreOf(HeapNext, b) = StoreOf(Heap, b)
    /\ createWhereExpressionString(HeapNext, b) = createWhereExpressionString(Heap, b)

(* C5: a call on a clone leaves the logical parameters, the native         *)
(* parameters, the conditions and the compiled WHERE text of the builder   *)
(* it was cloned from unchanged, and a call on that builder leaves the     *)
(* clone unchanged.                                                        *)
C5_CloneIsolation ==
    [][ \A c \in Builders :
          cloneOf[c] # 0 =>
            /\ (last'.qb = c => Untouched(cloneOf[c]))
            /\ (last'.qb = cloneOf[c] => Untouched(c)) ]_vars

(* A clone has compiled a condition and bound a native parameter that the  *)
(* builder it was cloned from does not have.                               *)
C5_Witness ==
    \E c \in Builders :
        /\ cloneOf[c] # 0
        /\ last.qb = c /\ last.op = "andWhere" /\ last.ok
        /\ Len(MapOf(Heap, c).wheres) > Len(MapOf(Heap, cloneOf[c]).wheres)
        /\ Len(StoreOf(Heap, c)) > Len(StoreOf(Heap, cloneOf[c]))

-----------------------------------------------------------------------------
BracketsCompiled ==
    last.op = "andWhere" /\ last.where.kind = "brackets" /\ last.ok

(* C3, as claimed: once a Brackets value is compiled, every logical        *)
(* parameter its callback left on the nested builder is returned by        *)
(* getParameters() of the enclosing builder with the same value.           *)
C3_NestedParametersVisible ==
    BracketsCompiled =>
        \A key \in DOMAIN last.nested :
            /\ key \in DOMAIN getParameters(Heap, last.qb)
            /\ getParameters(Heap, last.qb)[key] = last.nested[key]

(* Is the discriminator key of builder b the derived one? *)
DerivesDiscriminator(b) ==
    /\ HasMetadata(b)
    /\ MainMetadata(b).discriminatorColumn # ""
    /\ MainMetadata(b).parentEntityMetadata # ""

(* C3, amended: once a Brackets value is compiled, every logical parameter *)
(* its callback left on the nested builder is returned by getParameters()  *)
(* of the enclosing builder with the same value, except the key            *)
(* discriminatorColumnValues when the main alias's entity has a            *)
(* discriminator column and a parent entity: getParameters() then returns  *)
(* an array under that key, never the callback's value.                    *)
C3_NestedParametersVisibleAmended ==
    BracketsCompiled =>
        \A key \in DOMAIN last.nested :
            /\ key \in DOMAIN getParameters(Heap, last.qb)
            /\ IF key = DiscriminatorKey /\ DerivesDiscriminator(last.qb)
               THEN ArrayElements(getParameters(Heap, last.qb)[key]) # {}
               ELSE getParameters(Heap, last.qb)[key] = last.nested[key]

(* A callback has set two parameters, one of them in a Brackets value of   *)
(* its own, and the enclosing builder held neither before.                 *)
C3_Witness ==
    /\ BracketsCompiled
    /\ {"name", "inner"} \subseteq DOMAIN last.nested
    /\ DOMAIN MapOf(last.before, last.qb).parameters = {}
    /\ DerivesDiscriminator(last.qb)

-----------------------------------------------------------------------------
(* C6: getParameters() changes nothing, and the stored logical parameters  *)
(* of a builder hold a discriminatorColumnValues entry only when the       *)
(* caller supplied one.                                                    *)
C6_DiscriminatorNotStored ==
    /\ last.op = "getParameters" => Heap = last.before
    /\ \A b \in Builders :
          DiscriminatorKey \in DOMAIN StoredParameters(b) => b \in explicitDiscriminator

-----------------------------------------------------------------------------
(* The entities that share the parent of an entity, the entity excluded.   *)
SiblingEntities(name) ==
    { e \in EntityNames :
        /\ e # name
        /\ EntityMetadatas[name].parentEntityMetadata # ""
        /\ EntityMetadatas[e].parentEntityMetadata
              = EntityMetadatas[name].parentEntityMetadata }

SiblingValues(name) ==
    { EntityMetadatas[e].discriminatorValue : e \in SiblingEntities(name) }

(* C7, as claimed: on a main alias whose entity takes part in single-table *)
(* inheritance getParameters() returns an array with the entity's own      *)
(* discriminator value and the values of all its sibling entities; on any  *)
(* other main alias it returns the stored parameters only.                 *)
C7_OwnAndSiblingValues ==
    last.op = "getParameters" =>
        IF HasMetadata(last.qb) /\ MainMetadata(last.qb).discriminatorColumn # ""
        THEN /\ DiscriminatorKey \in DOMAIN last.parameters
             /\ {MainMetadata(last.qb).discriminatorValue}
                   \cup SiblingValues(Aliases[MapOf(Heap, last.qb).mainAlias].metadata)
                \subseteq ArrayElements(last.parameters[DiscriminatorKey])
        ELSE last.parameters = StoredParameters(last.qb)

ChildValues(metadata) ==
    { EntityMetadatas[metadata.childEntityMetadatas[i]].discriminatorValue :
        i \in { j \in 1..Len(metadata.childEntityMetadatas) :
                  EntityMetadatas[metadata.childEntityMetadatas[j]].discriminatorColumn # "" } }

(* C7, amended: on a main alias whose entity has a discriminator column    *)
(* and a parent entity, getParameters() returns the stored parameters with *)
(* discriminatorColumnValues replaced by an array of the discriminator     *)
(* values of the entity's child entities and, last, the entity's own; on   *)
(* any other main alias (no metadata, no discriminator column, or the root *)
(* of the inheritance) it returns the stored parameters only.              *)
C7_OwnAndChildValues ==
    last.op = "getParameters" =>
        IF DerivesDiscriminator(last.qb)
        THEN /\ DOMAIN last.parameters
                   = DOMAIN StoredParameters(last.qb) \cup {DiscriminatorKey}
             /\ \A key \in DOMAIN StoredParameters(last.qb) \ {DiscriminatorKey} :
                   last.parameters[key] = StoredParameters(last.qb)[key]
             /\ ArrayElements(last.parameters[DiscriminatorKey])
                   = ChildValues(MainMetadata(last.qb))
                        \cup {MainMetadata(last.qb).discriminatorValue}
             /\ Includes(last.parameters[DiscriminatorKey],
                         MainMetadata(last.qb).discriminatorValue \o "]")
        ELSE last.parameters = StoredParameters(last.qb)

(* getParameters() on an entity with a parent, a child and a sibling,      *)
(* whose builder stores a discriminatorColumnValues of the caller.         *)
C7_Witness ==
    /\ last.op = "getParameters"
    /\ DerivesDiscriminator(last.qb)
    /\ ChildValues(MainMetadata(last.qb)) # {}
    /\ SiblingValues(Aliases[MapOf(Heap, last.qb).mainAlias].metadata) # {}
    /\ DiscriminatorKey \in DOMAIN StoredParameters(last.qb)
    /\ "name" \in DOMAIN StoredParameters(last.qb)

-----------------------------------------------------------------------------
(* C4: no condition compilation (structured records, identity lookups,     *)
(* Brackets over the shared store) overwrites a native parameter that was  *)
(* bound before it: every native parameter keeps its value.                *)
C4_NativeParametersKept ==
    [][ \A b \in Builders : \A i \in 1..Len(StoreOf(Heap, b)) :
          last'.op \in {"andWhere", "whereInIds"} =>
            /\ HasNative(StoreOf(HeapNext, b), StoreOf(Heap, b)[i].name)
            /\ NativeValue(StoreOf(HeapNext, b), StoreOf(Heap, b)[i].name)
                  = StoreOf(Heap, b)[i].value ]_vars

-----------------------------------------------------------------------------
CompilationReturned == last.op \in {"andWhere", "whereInIds"} /\ last.ok

(* C8: after a condition compilation that returned, every placeholder of   *)
(* the fragment names a native parameter bound in the builder's store.     *)
C8_NoUnboundPlaceholder ==
    CompilationReturned =>
        \A name \in PlaceholderNames(last.ret) : HasNative(StoreOf(Heap, last.qb), name)

(* A record sequence has compiled to two OR-branches with a placeholder,   *)
(* on a store that was empty before.                                       *)
C8_Witness ==
    /\ CompilationReturned
    /\ last.where.kind = "object" /\ Len(last.where.wheres) = 2
    /\ PlaceholderNames(last.ret) # {}
    /\ Includes(last.ret, ") OR (")
    /\ Len(StoreOf(last.before, last.qb)) = 0

-----------------------------------------------------------------------------
CompositeLookup ==
    /\ last.op = "whereInIds" /\ last.ok
    /\ HasMetadata(last.qb)
    /\ Len(primaryColumns(MainMetadata(last.qb))) > 1
    /\ Len(last.ids) >= 1

ExpectedColumnName(b, column) ==
    (IF MapOf(Heap, b).aliasNamePrefixingEnabled
     THEN "\"" \o MapOf(Heap, b).mainAlias \o "\"." ELSE "")
    \o "\"" \o column.databaseName \o "\""

ExpectedGroup(b, columns, n, first) ==
    Join([k \in 1..Len(columns) |->
             ExpectedColumnName(b, columns[k]) \o " = {id_" \o ToString(n - 1) \o "_"
                \o ToString(k - 1) \o "#"
                \o ToString(first + (n - 1) * Len(columns) + (k - 1)) \o "}"],
         " AND ")

ExpectedGroups(b, columns, ids, first) ==
    IF Len(ids) = 1 THEN ExpectedGroup(b, columns, 1, first)
    ELSE "(" \o Join([n \in 1..Len(ids) |->
                         "(" \o ExpectedGroup(b, columns, n, first) \o ")"], " OR ")
             \o ")"

(* C9: for an entity with K > 1 primary columns and N >= 1 identities,     *)
(* createWhereIdsExpression binds N*K distinct native parameters, each to  *)
(* its identity's value of its column, and returns for each identity the   *)
(* AND of "column = placeholder" over the K columns, the N groups joined   *)
(* by OR in input order; with N > 1 every group is in parentheses (and so  *)
(* is the whole), with N = 1 there are none.                               *)
C9_CompositeIdentity ==
    CompositeLookup =>
        /\ last.ret = ExpectedGroups(last.qb, primaryColumns(MainMetadata(last.qb)),
                                     last.ids, Len(StoreOf(last.before, last.qb)))
        /\ Cardinality(PlaceholderNames(last.ret))
              = Len(last.ids) * Len(primaryColumns(MainMetadata(last.qb)))
        /\ \A n \in 1..Len(last.ids) :
             \A k \in 1..Len(primaryColumns(MainMetadata(last.qb))) :
               /\ HasNative(StoreOf(Heap, last.qb), whereIdName(n - 1, k - 1))
               /\ NativeValue(StoreOf(Heap, last.qb), whereIdName(n - 1, k - 1))
                     = last.ids[n][primaryColumns(MainMetadata(last.qb))[k].propertyName]

(* Two different identities of a two-column key, looked up on a store that *)
(* already held a parameter.                                               *)
C9_Witness ==
    /\ CompositeLookup
    /\ Len(last.ids) = 2 /\ last.ids[1] # last.ids[2]
    /\ Len(StoreOf(last.before, last.qb)) > 0

-----------------------------------------------------------------------------
SingleKeyLookup ==
    /\ last.op = "whereInIds" /\ last.ok
    /\ HasMetadata(last.qb)
    /\ Len(primaryColumns(MainMetadata(last.qb))) = 1
    /\ Len(MainMetadata(last.qb).embeddeds) = 0
    /\ Len(last.ids) >= 1

(* C10: for an entity with one primary column and no embedded identity,    *)
(* createWhereIdsExpression over a list of identities (here: a list that   *)
(* is not empty) returns a single IN predicate whose one placeholder is    *)
(* bound to the array of all the identity values, never one equality per   *)
(* identity.                                                               *)
C10_SingleInOverOneArray ==
    SingleKeyLookup =>
        /\ Includes(last.ret, " IN (")
        /\ ~Includes(last.ret, " = ")
        /\ \E name \in PlaceholderNames(last.ret) :
              /\ PlaceholderNames(last.ret) = {name}
              /\ HasNative(StoreOf(Heap, last.qb), name)
              /\ NativeValue(StoreOf(Heap, last.qb), name)
                    = ArrayValue([n \in 1..Len(last.ids) |->
                          last.ids[n][primaryColumns(MainMetadata(last.qb))[1].propertyName]])

-----------------------------------------------------------------------------
(* The records of the last call and the value a column of a record yields. *)
LastRecords == last.where.wheres

(* The value the compiler gets for key k of record w of the last call: the *)
(* value of the record on a table-only alias, what the column yields on an *)
(* entity-mapped alias.                                                    *)
CompiledValue(w, k) ==
    IF HasMetadata(last.qb)
    THEN getEntityValue(
             findColumnsWithPropertyPath(MainMetadata(last.qb), LastRecords[w][k].key)[1],
             LastRecords[w], TRUE)
    ELSE LastRecords[w][k].value

RecordCompiled ==
    last.op = "andWhere" /\ last.where.kind = "object" /\ last.ok

(* A record of one key whose value reaches the compiler as a descriptor. *)
OperatorCompiled ==
    /\ RecordCompiled /\ HasMetadata(last.qb)
    /\ Len(LastRecords) = 1 /\ Len(LastRecords[1]) = 1
    /\ CompiledValue(1, 1).kind = "operator"

CompiledOperator == CompiledValue(1, 1).operator[1]

-----------------------------------------------------------------------------
(* The qualified column the compiler writes for a key of the main alias. *)
ExpectedAliasPath(b, key) ==
    IF MapOf(Heap, b).aliasNamePrefixingEnabled
    THEN Aliases[MapOf(Heap, b).mainAlias].name \o "." \o key
    ELSE key

(* The placeholders of the native parameters of builder b that hold value, *)
(* with any index a compilation can give them: it counts on from the size  *)
(* of the store before the call.                                           *)
PlaceholdersOf(b, value) ==
    { createParameter(StoreOf(Heap, b)[i].name, n) :
        i \in { j \in 1..Len(StoreOf(Heap, b)) : StoreOf(Heap, b)[j].value = value },
        n \in 0..(2 * Len(StoreOf(Heap, b))) }

(* What the child of the negation of the last call renders alone, compiled *)
(* for the same key from the state before the call.                        *)
ChildAlone ==
    andWhere(last.before, last.qb,
        ObjectWhere(<< Record1(LastRecords[1][1].key,
                               OperatorValue(CompiledOperator.child[1])) >>))

(* C12: not(child) renders NOT( + the fragment child alone renders for the *)
(* same column and placeholders + ); not(between(a, b)) renders            *)
(* NOT(column BETWEEN p0 AND p1); not without a child renders column != p0.*)
C12_NotIsComposable ==
    (OperatorCompiled /\ CompiledOperator.type = "not") =>
        /\ Len(CompiledOperator.child) > 0 =>
              /\ ChildAlone.ok
              /\ last.ret = "NOT(" \o ChildAlone.ret \o ")"
              /\ StoreOf(Heap, last.qb) = StoreOf(ChildAlone.h, last.qb)
        /\ CompiledOperator = NotOperator(Between("v1", "v2")) =>
              \E p0 \in PlaceholdersOf(last.qb, "v1"), p1 \in PlaceholdersOf(last.qb, "v2") :
                  last.ret = "NOT(" \o ExpectedAliasPath(last.qb, LastRecords[1][1].key)
                                \o " BETWEEN " \o p0 \o " AND " \o p1 \o ")"
        /\ Len(CompiledOperator.child) = 0 =>
              \E p0 \in PlaceholdersOf(last.qb, CompiledOperator.value[1]) :
                  last.ret = ExpectedAliasPath(last.qb, LastRecords[1][1].key)
                                \o " != " \o p0

(* not(between(v1, v2)) has compiled on a store that held parameters. *)
C12_Witness ==
    /\ OperatorCompiled /\ CompiledOperator = NotOperator(Between("v1", "v2"))
    /\ Len(StoreOf(last.before, last.qb)) > 0
    /\ Includes(last.ret, "NOT(") /\ Includes(last.ret, " BETWEEN ")

-----------------------------------------------------------------------------
(* The position of the first occurrence of sep in text at or after i, or   *)
(* Len(text) + 1.                                                          *)
RECURSIVE IndexOfText(_, _, _)
IndexOfText(text, sep, i) ==
    IF i + Len(sep) - 1 > Len(text) THEN Len(text) + 1
    ELSE IF SubSeq(text, i, i + Len(sep) - 1) = sep THEN i
    ELSE IndexOfText(text, sep, i + 1)

(* The parts of text between the occurrences of sep; no part of no text. *)
RECURSIVE SplitBy(_, _)
SplitBy(text, sep) ==
    IF text = "" THEN <<>>
    ELSE IF IndexOfText(text, sep, 1) > Len(text) THEN <<text>>
    ELSE <<SubSeq(text, 1, IndexOfText(text, sep, 1) - 1)>>
         \o (IF IndexOfText(text, sep, 1) + Len(sep) > Len(text) THEN <<"">>
             ELSE SplitBy(SubSeq(text, IndexOfText(text, sep, 1) + Len(sep), Len(text)),
                          sep))

(* A call that compiled a sequence of records of plain and null values. *)
PlainRecordsCompiled ==
    /\ RecordCompiled
    /\ \A w \in 1..Len(LastRecords) : \A k \in 1..Len(LastRecords[w]) :
          CompiledValue(w, k).kind # "operator"

(* Is fragment what key k of record w compiles to: the qualified column    *)
(* with IS NULL, or with = and a placeholder bound to the value?           *)
KeyFragment(w, k, fragment) ==
    IF CompiledValue(w, k).kind = "null"
    THEN fragment = ExpectedAliasPath(last.qb, LastRecords[w][k].key) \o " IS NULL"
    ELSE \E p \in PlaceholdersOf(last.qb, CompiledValue(w, k).value) :
            fragment = ExpectedAliasPath(last.qb, LastRecords[w][k].key) \o " = " \o p

(* Is fragment the AND of the fragments of the keys of record w? *)
RecordFragment(w, fragment) ==
    /\ Len(SplitBy(fragment, " AND ")) = Len(LastRecords[w])
    /\ \A k \in 1..Len(LastRecords[w]) :
          KeyFragment(w, k, SplitBy(fragment, " AND ")[k])

InParens(text) ==
    Len(text) >= 2 /\ CharAt(text, 1) = "(" /\ CharAt(text, Len(text)) = ")"

-----------------------------------------------------------------------------
(* The name of the native parameter of key k of record w: where_w_p_c with *)
(* the one column c = 0 of the key on an entity-mapped alias, where_w_k on *)
(* a table-only alias.                                                     *)
KeyParameterName(w, k) ==
    "where_" \o ToString(w - 1) \o "_" \o ToString(k - 1)
       \o (IF HasMetadata(last.qb) THEN "_0" ELSE "")

NullKeys ==
    { <<w, k>> \in (1..Len(LastRecords)) \X (1..2) :
        k <= Len(LastRecords[w]) /\ CompiledValue(w, k).kind = "null" }

AllKeys ==
    { <<w, k>> \in (1..Len(LastRecords)) \X (1..2) : k <= Len(LastRecords[w]) }

(* The fragment of key k of record w in the text the last call returned. *)
FragmentOf(w, k) ==
    SplitBy(IF Len(LastRecords) > 1
            THEN SubSeq(SplitBy(last.ret, " OR ")[w], 2,
                        Len(SplitBy(last.ret, " OR ")[w]) - 1)
            ELSE last.ret,
            " AND ")[k]

(* C14: a key whose value is null renders <qualified-column> IS NULL and   *)
(* consumes no parameter, on entity-mapped and on table-only main aliases: *)
(* the native parameter of the key is as it was before, and a record of    *)
(* null values only leaves the native store as it was.                     *)
C14_NullConsumesNoParameter ==
    PlainRecordsCompiled =>
        /\ \A wk \in NullKeys :
              /\ FragmentOf(wk[1], wk[2])
                    = ExpectedAliasPath(last.qb, LastRecords[wk[1]][wk[2]].key)
                         \o " IS NULL"
              /\ HasNative(StoreOf(Heap, last.qb), KeyParameterName(wk[1], wk[2]))
                    = HasNative(StoreOf(last.before, last.qb),
                                KeyParameterName(wk[1], wk[2]))
              /\ HasNative(StoreOf(Heap, last.qb), KeyParameterName(wk[1], wk[2])) =>
                    NativeValue(StoreOf(Heap, last.qb), KeyParameterName(wk[1], wk[2]))
                      = NativeValue(StoreOf(last.before, last.qb),
                                    KeyParameterName(wk[1], wk[2]))
        /\ NullKeys = AllKeys => nativeStores = last.before.ns

(* A record of a plain and a null value has compiled on an entity-mapped   *)
(* alias whose earlier condition bound no parameter.                       *)
C14_Witness ==
    /\ PlainRecordsCompiled /\ HasMetadata(last.qb)
    /\ NullKeys # {} /\ NullKeys # AllKeys
    /\ Includes(last.ret, " IS NULL")
    /\ Len(last.before.em[1].wheres) = 1
    /\ last.before.ns = <<<<>>>>

-----------------------------------------------------------------------------
(* The keys of the records of the last call that resolve to no column of   *)
(* the entity of the main alias.                                           *)
UnmappedKeys ==
    { wk \in AllKeys :
        findColumnsWithPropertyPath(MainMetadata(last.qb),
                                    LastRecords[wk[1]][wk[2]].key) = <<>> }

(* The first of them, in the order of the records and of their keys. *)
FirstUnmappedKey ==
    CHOOSE wk \in UnmappedKeys :
        \A other \in UnmappedKeys :
            wk[1] < other[1] \/ (wk[1] = other[1] /\ wk[2] <= other[2])

(* C15: on an entity-mapped main alias the compilation of structured       *)
(* records fails with EntityColumnNotFound of the offending property path  *)
(* whenever a key of a record resolves to no column; no fragment is        *)
(* returned and no condition is added.                                     *)
C15_UnmappedPropertyFails ==
    (/\ last.op = "andWhere" /\ last.where.kind = "object"
     /\ HasMetadata(last.qb) /\ UnmappedKeys # {}) =>
        /\ ~last.ok
        /\ last.err = EntityColumnNotFound(
                           LastRecords[FirstUnmappedKey[1]][FirstUnmappedKey[2]].key)
        /\ last.ret = ""
        /\ MapOf(Heap, last.qb).wheres = MapOf(last.before, last.qb).wheres

(* The second record of a sequence has an unmapped key behind a mapped one *)
(* and the compilation has failed.                                         *)
C15_Witness ==
    /\ last.op = "andWhere" /\ last.where.kind = "object" /\ HasMetadata(last.qb)
    /\ UnmappedKeys # {} /\ FirstUnmappedKey = <<2, 2>>
    /\ ~last.ok /\ last.err = EntityColumnNotFound("name")

-----------------------------------------------------------------------------
(* The calls that need a main alias. *)
NeedsMainAlias ==
    \/ last.op \in {"alias", "getMainTableName", "createWhereExpression", "whereInIds"}
    \/ last.op = "andWhere" /\ last.where.kind = "object"

(* The errors the code has for a missing main alias. *)
MissingMainAliasErrors == {MainAliasNotSetError, NoInsertTargetError}

(* C16: every operation that needs a main alias fails at once with the     *)
(* error for a missing main alias when the builder has no main alias.      *)
C16_MissingMainAliasError ==
    (NeedsMainAlias /\ MapOf(last.before, last.qb).mainAlias = NoAlias) =>
        ~last.ok /\ last.err \in MissingMainAliasErrors

-----------------------------------------------------------------------------
WhereExpressionCreated == last.op = "createWhereExpression" /\ last.ok

(* Is the soft-delete filter due on builder b? *)
SoftDeleteApplies(b) ==
    /\ HasMetadata(b)
    /\ MapOf(Heap, b).queryType = "select"
    /\ ~MapOf(Heap, b).withDeleted
    /\ Len(MainMetadata(b).deleteDateColumn) > 0

SoftDeleteGroup(b) ==
    ExpectedColumnName(b, MainMetadata(b).deleteDateColumn[1]) \o " IS NULL"

(* Is group one of the conjoined groups of the text of a WHERE clause? *)
Conjoins(text, group) ==
    \/ text = " WHERE " \o group
    \/ /\ startsWith(text, " WHERE ( ")
       /\ \E i \in 1..Len(SplitBy(SubSeq(text, 10, Len(text) - 2), " ) AND ( ")) :
             SplitBy(SubSeq(text, 10, Len(text) - 2), " ) AND ( ")[i] = group

(* C17: for a select query without the include-deleted flag on an entity   *)
(* with a delete-date column, createWhereExpression conjoins               *)
(* <delete-date column> IS NULL whatever the user conditions are; for any  *)
(* other query type, or with the flag set, it does not add it.             *)
C17_SoftDeleteFilter ==
    WhereExpressionCreated =>
        IF SoftDeleteApplies(last.qb)
        THEN Conjoins(last.ret, SoftDeleteGroup(last.qb))
        ELSE ~Includes(last.ret, " IS NULL")

(* The WHERE clause of a select on a soft-deleted entity that has a user   *)
(* condition.                                                              *)
C17_Witness ==
    /\ WhereExpressionCreated /\ SoftDeleteApplies(last.qb)
    /\ Len(MapOf(Heap, last.qb).wheres) > 0
    /\ Includes(last.ret, "deleted_at\" IS NULL")
    /\ Includes(last.ret, " AND ")

-----------------------------------------------------------------------------
(* The condition groups of builder b, in the order of createWhereExpression:*)
(* user conditions, soft-delete filter, discriminator filter, appended     *)
(* condition.                                                              *)
ConditionGroups(b) ==
    (IF trim(createWhereExpressionString(Heap, b)) # ""
     THEN <<createWhereExpressionString(Heap, b)>> ELSE <<>>)
    \o (IF SoftDeleteApplies(b) THEN <<SoftDeleteGroup(b)>> ELSE <<>>)
    \o (IF HasMetadata(b) /\ hasDiscriminator(MainMetadata(b))
        THEN <<ExpectedColumnName(b, [databaseName |-> MainMetadata(b).discriminatorColumn])
                 \o " IN (:...discriminatorColumnValues)">>
        ELSE <<>>)
    \o (IF MapOf(Heap, b).extraAppendedAndWhereCondition # ""
        THEN <<replacePropertyNames(Heap, b, MapOf(Heap, b).extraAppendedAndWhereCondition)>>
        ELSE <<>>)

(* C18: createWhereExpression renders no group as the empty string, one    *)
(* group as WHERE and the group without added parentheses, two or more     *)
(* groups each in parentheses and joined with AND in their fixed order.    *)
C18_GroupsCombined ==
    WhereExpressionCreated =>
        IF Len(ConditionGroups(last.qb)) = 0 THEN last.ret = ""
        ELSE IF Len(ConditionGroups(last.qb)) = 1
        THEN last.ret = " WHERE " \o ConditionGroups(last.qb)[1]
        ELSE last.ret = " WHERE "
                 \o Join([i \in 1..Len(ConditionGroups(last.qb)) |->
                             "( " \o ConditionGroups(last.qb)[i] \o " )"], " AND ")

(* The WHERE clause of all four groups. *)
C18_Witness ==
    /\ WhereExpressionCreated /\ Len(ConditionGroups(last.qb)) = 4
    /\ Includes(last.ret, " ) AND ( ")

-----------------------------------------------------------------------------
(* C19: property-path substitution is idempotent: applied to the text it   *)
(* returned, replacePropertyNames returns that text, for every set of      *)
(* aliases and columns, with and without alias prefix and escaping.        *)
C19_SubstitutionIdempotent ==
    (last.op = "replacePropertyNames" /\ last.again) => last.ret = last.statement

-----------------------------------------------------------------------------
(* The entity-mapped aliases in scope of builder b. *)
MappedAliases(b) ==
    SelectSeq(MapOf(Heap, b).aliases, LAMBDA a : Aliases[a].hasMetadata)

(* The known keys of the one mapped alias of b, each with its physical name.*)
KnownKeys(b) == replacementsOf(EntityMetadatas[Aliases[MappedAliases(b)[1]].metadata])

(* What stands before a key in the text, and before its physical name in   *)
(* the result: alias. and escaped alias. with alias prefix, else nothing.  *)
KeyPrefix(b) ==
    IF MapOf(Heap, b).aliasNamePrefixingEnabled
    THEN Aliases[MappedAliases(b)[1]].name \o "." ELSE ""

PhysicalPrefix(b) ==
    IF MapOf(Heap, b).aliasNamePrefixingEnabled
    THEN escape(Heap, b, Aliases[MappedAliases(b)[1]].name) \o "." ELSE ""

(* The known keys that stand at position i of text as a whole token:       *)
(* behind a space, =, ( or the start, and before a space, =, ), , or the   *)
(* end, where breaks are the characters that start and end a line.         *)
TokensAt(b, text, i, breaks) ==
    { k \in 1..Len(KnownKeys(b)) :
        /\ i = 1 \/ CharAt(text, i - 1) \in LeftBoundary \cup breaks
        /\ i + Len(KeyPrefix(b) \o KnownKeys(b)[k].name) - 1 <= Len(text)
        /\ SubSeq(text, i, i + Len(KeyPrefix(b) \o KnownKeys(b)[k].name) - 1)
              = KeyPrefix(b) \o KnownKeys(b)[k].name
        /\ \/ i + Len(KeyPrefix(b) \o KnownKeys(b)[k].name) - 1 = Len(text)
           \/ CharAt(text, i + Len(KeyPrefix(b) \o KnownKeys(b)[k].name))
                 \in RightBoundary \cup breaks }

TokenAt(b, text, i, breaks) == CHOOSE k \in TokensAt(b, text, i, breaks) : TRUE

(* The text with exactly its whole-token occurrences of known keys         *)
(* replaced by the physical names.                                         *)
RECURSIVE WholeTokensReplaced(_, _, _, _)
WholeTokensReplaced(b, text, i, breaks) ==
    IF i > Len(text) THEN ""
    ELSE IF TokensAt(b, text, i, breaks) # {}
    THEN PhysicalPrefix(b)
           \o escape(Heap, b, KnownKeys(b)[TokenAt(b, text, i, breaks)].value)
           \o WholeTokensReplaced(b, text,
                  i + Len(KeyPrefix(b) \o KnownKeys(b)[TokenAt(b, text, i, breaks)].name),
                  breaks)
    ELSE CharAt(text, i) \o WholeTokensReplaced(b, text, i + 1, breaks)

SubstitutedForOneAlias ==
    last.op = "replacePropertyNames" /\ Len(MappedAliases(last.qb)) = 1

(* C20, as claimed: replacePropertyNames replaces a known key only where   *)
(* it stands behind a space, =, ( or the start of the text and before a    *)
(* space, =, ), , or the end of the text; with alias prefix only alias.key *)
(* is replaced.                                                            *)
C20_WholeTokenInText ==
    SubstitutedForOneAlias =>
        last.ret = WholeTokensReplaced(last.qb, last.statement, 1, {})

(* C20, amended: replacePropertyNames replaces a known key exactly where   *)
(* it stands behind a space, =, ( or the start of a line and before a      *)
(* space, =, ), , or the end of a line, so a key inside a longer           *)
(* identifier is never replaced; with alias prefix only alias.key is       *)
(* replaced and a bare key is left unchanged.                              *)
C20_WholeTokenInLine ==
    SubstitutedForOneAlias =>
        last.ret = WholeTokensReplaced(last.qb, last.statement, 1, LineTerminators)

(* With alias prefix, a text whose key stands inside a longer identifier   *)
(* on its first line and as a whole token on its second line has had the   *)
(* second replaced only.                                                   *)
C20_Witness ==
    /\ SubstitutedForOneAlias /\ MapOf(Heap, last.qb).mainAlias = "tag"
    /\ MapOf(Heap, last.qb).aliasNamePrefixingEnabled
    /\ ~MapOf(Heap, last.qb).disableEscaping
    /\ last.statement = "tag.nameid\ntag.name"
    /\ last.ret = "tag.nameid\ntag.title"

-----------------------------------------------------------------------------
(* C24: setParameters(map) is all-or-nothing: when any value of the map is *)
(* a function the call fails before anything is written, and the logical   *)
(* parameters of the builder and of every ancestor builder (here: of every *)
(* builder of the heap) are exactly what they were before the call,        *)
(* whichever other keys the map has.                                       *)
C24_SetParametersAllOrNothing ==
    (last.op = "setParameters"
       /\ \E key \in DOMAIN last.parameters : IsFunction(last.parameters[key]))
    => /\ ~last.ok
       /\ last.err = FunctionParameterError
       /\ \A a \in Builders :
             StoredParameters(a) = MapOf(last.before, a).parameters

(* A sub-query builder has just refused a map that has a function under    *)
(* one key and an acceptable value, new to the builder and to its parent,  *)
(* under another.                                                          *)
C24_Witness ==
    /\ last.op = "setParameters" /\ ~last.ok
    /\ MapOf(Heap, last.qb).parentQueryBuilder # 0
    /\ DOMAIN last.parameters = Keys
    /\ \E key \in Keys :
          /\ ~IsFunction(last.parameters[key])
          /\ \A a \in Chain(Heap, last.qb) : key \notin DOMAIN StoredParameters(a)

-----------------------------------------------------------------------------
(* The placeholders "{name#index}" of a fragment, in the order they occur: *)
(* the parameter name and the text of the positional index of each.        *)
RECURSIVE PlaceholdersFrom(_, _)
PlaceholdersFrom(text, i) ==
    IF IndexOf(text, "{", i) > Len(text) THEN <<>>
    ELSE <<[name |-> SubSeq(text, IndexOf(text, "{", i) + 1,
                            IndexOf(text, "#", IndexOf(text, "{", i)) - 1),
            index |-> SubSeq(text, IndexOf(text, "#", IndexOf(text, "{", i)) + 1,
                             IndexOf(text, "}", IndexOf(text, "{", i)) - 1)]>>
         \o PlaceholdersFrom(text, IndexOf(text, "}", IndexOf(text, "{", i)) + 1)

NativeNames(store) == {store[i].name : i \in 1..Len(store)}

(* A structured record or an identity list has just been compiled. *)
RecordOrIdentityCompiled ==
    /\ last.ok
    /\ \/ last.op = "andWhere" /\ last.where.kind = "object"
       \/ last.op = "whereInIds"

(* The number of native parameters in the store just before the k-th       *)
(* parameter of the last compilation is bound: those the store held before *)
(* the call and those the compilation has bound so far.                    *)
StoreSizeBefore(ps, k) ==
    Cardinality(NativeNames(StoreOf(last.before, last.qb))
                   \cup {ps[j].name : j \in 1..(k - 1)})

(* C25: the positional index given to the placeholder generator for each   *)
(* newly bound native parameter is the number of native parameters in the  *)
(* store just before that parameter is bound, for structured records on an *)
(* entity-mapped alias, on a table-only alias and for identity lookups,    *)
(* and for every sequence of compilations on one builder.  The             *)
(* placeholders of the compiled fragment are read in binding order.        *)
C25_IndexIsStoreSize ==
    RecordOrIdentityCompiled =>
       With(PlaceholdersFrom(last.ret, 1),
            LAMBDA ps : \A k \in 1..Len(ps) :
                           ps[k].index = ToString(StoreSizeBefore(ps, k)))

-----------------------------------------------------------------------------
(* A RETURNING clause has just been rendered for the builder. *)
ReturningCreated == last.op = "createReturningExpression" /\ last.ok

ReturningRequest == MapOf(Heap, last.qb).returning

(* The columns the property paths of the request resolve to, in the order  *)
(* of the request.                                                         *)
RequestedColumns ==
    IF ReturningRequest.kind # "array" \/ ~HasMetadata(last.qb) THEN <<>>
    ELSE Flatten([i \in 1..Len(ReturningRequest.names) |->
                     findColumnsWithPropertyPath(MainMetadata(last.qb),
                                                 ReturningRequest.names[i])])

(* The extra refresh columns a dialect with a returning clause adds. *)
RefreshColumns ==
    IF isReturningSqlSupported(driver)
    THEN MapOf(Heap, last.qb).extraReturningColumns ELSE <<>>

(* The columns in the order of their first occurrence, one per physical    *)
(* column name.                                                            *)
RECURSIVE DistinctByName(_, _)
DistinctByName(columns, seen) ==
    IF Len(columns) = 0 THEN <<>>
    ELSE IF columns[1].databaseName \in seen
    THEN DistinctByName(Tail(columns), seen)
    ELSE <<columns[1]>>
            \o DistinctByName(Tail(columns), seen \cup {columns[1].databaseName})

(* What follows the last dot of a text. *)
RECURSIVE AfterLastDot(_)
AfterLastDot(text) ==
    IF IndexOf(text, ".", 1) > Len(text) THEN text
    ELSE AfterLastDot(SubSeq(text, IndexOf(text, ".", 1) + 1, Len(text)))

(* The escaped column names of a rendered clause, in order, without their  *)
(* qualifier and without what follows the column list.                     *)
RenderedColumnNames(text) ==
    With(SplitBy(SubSeq(text, 1, IndexOfText(text, " INTO ", 1) - 1), ", "),
         LAMBDA parts : [i \in 1..Len(parts) |-> AfterLastDot(parts[i])])

(* C21: the column list rendered by createReturningExpression is the       *)
(* requested columns followed by the extra refresh columns, de-duplicated  *)
(* by physical column name and order-preserving on first occurrence: no    *)
(* physical column name appears twice in the rendered clause, also when    *)
(* the request itself names the same column more than once.  Checked for   *)
(* the requests that are not a literal text; the extra columns are         *)
(* expected only of a dialect that supports a returning clause.            *)
C21_ReturningColumnsDistinct ==
    (ReturningCreated /\ ReturningRequest.kind # "string") =>
       With(DistinctByName(RequestedColumns \o RefreshColumns, {}),
            LAMBDA expected :
              RenderedColumnNames(last.ret)
                 = [i \in 1..Len(expected) |->
                       escape(Heap, last.qb, expected[i].databaseName)])

-----------------------------------------------------------------------------
(* C22: when the resolved returning column set is empty,                   *)
(* createReturningExpression renders the literal passthrough string        *)
(* unchanged if the request is a string, and the empty string otherwise; a *)
(* string request never has extra refresh columns merged into it (its      *)
(* column set is always empty, so the call returns the literal) and never  *)
(* registers a native parameter.                                           *)
C22_LiteralPassthrough ==
    (last.op = "createReturningExpression") =>
       /\ (ReturningRequest.kind = "string") =>
             /\ last.ok
             /\ last.ret = ReturningRequest.text
             /\ StoreOf(Heap, last.qb) = StoreOf(last.before, last.qb)
       /\ (last.ok /\ ReturningRequest.kind # "string"
              /\ Len(RequestedColumns \o RefreshColumns) = 0) =>
             last.ret = ""

(* A literal request has just been rendered on a dialect that binds output *)
(* parameters, for a builder that has extra refresh columns.               *)
C22_Witness ==
    /\ ReturningCreated
    /\ ReturningRequest = ReturningString("*")
    /\ driver = "oracle"
    /\ Len(MapOf(Heap, last.qb).extraReturningColumns) > 0
    /\ last.ret = "*"

-----------------------------------------------------------------------------
(* The activations of execute() that obtained a query runner of their own. *)
OwnRunnerExecutions ==
    { e \in 1..Len(executions) :
         /\ executions[e].queryRunner # 0
         /\ queryRunners[executions[e].queryRunner].createdBy = "execute" }

(* C23: execute() releases the query runner in every outcome: a query      *)
(* runner the builder obtained for the call, having none of its own, is    *)
(* released exactly once after the query finishes, whether the query       *)
(* succeeded or failed (not before, and once from then on); a query runner *)
(* supplied to the builder by the caller is never released by execute().   *)
C23_OwnRunnerReleasedOnce ==
    /\ \A e \in OwnRunnerExecutions :
          queryRunners[executions[e].queryRunner].released
             = IF executions[e].pc = "query" THEN 0 ELSE 1
    /\ \A r \in 1..Len(queryRunners) :
          queryRunners[r].createdBy = "caller" => queryRunners[r].released = 0

====
